---- MODULE Spec2Model ----
(***************************************************************************)
(* A model of gojira's worklog pipeline: the duration codec, the ISO week  *)
(* utilities, the weekly grouping, the create command and the              *)
(* edit-myworklog command (render, edit, parse, reconcile).                *)
(*                                                                         *)
(* Text is modelled as TLA+ strings read character by character; the       *)
(* regular expressions of the source are operators that follow Go's        *)
(* leftmost-first matching.                                                *)
(***************************************************************************)
EXTENDS Integers, Sequences, FiniteSets, TLC

VARIABLES
    pc,             \* position of the running command or function
    input,          \* the arguments the command or function was called with
    output,         \* what it has produced, collected or printed so far
    calls,          \* the write requests sent to JIRA so far, with their outcome
    exitCode,       \* the status the process exited with, None while it runs
    dayWorklogs,    \* edit myworklog: the day's worklogs as fetched and sorted
    out,            \* edit myworklog: the text handed to the editor
    edited,         \* edit myworklog: the text the editor gave back
    editedWorklogs, \* edit myworklog: the records parsed from edited
    idx             \* edit myworklog: position of the running loop

editVars == <<dayWorklogs, out, edited, editedWorklogs, idx>>

vars == <<pc, input, output, calls, exitCode, editVars>>

\* the variables a pure function leaves alone
cmdVars == <<calls, exitCode, editVars>>

NoEdit ==
    /\ dayWorklogs = <<>>
    /\ out = ""
    /\ edited = ""
    /\ editedWorklogs = <<>>
    /\ idx = 0

NoCommand == calls = <<>> /\ exitCode = "none" /\ NoEdit

None == "none"

(***************************************************************************)
(* Characters and strings                                                  *)
(***************************************************************************)
Digits == {"0", "1", "2", "3", "4", "5", "6", "7", "8", "9"}

\* the character at position i of s, "" past either end
Char(s, i) == IF i >= 1 /\ i <= Len(s) THEN SubSeq(s, i, i) ELSE ""

DigitVal(c) ==
    CASE c = "0" -> 0 [] c = "1" -> 1 [] c = "2" -> 2 [] c = "3" -> 3
      [] c = "4" -> 4 [] c = "5" -> 5 [] c = "6" -> 6 [] c = "7" -> 7
      [] c = "8" -> 8 [] c = "9" -> 9

DigitChar(n) ==
    CASE n = 0 -> "0" [] n = 1 -> "1" [] n = 2 -> "2" [] n = 3 -> "3"
      [] n = 4 -> "4" [] n = 5 -> "5" [] n = 6 -> "6" [] n = 7 -> "7"
      [] n = 8 -> "8" [] n = 9 -> "9"

\* strconv.Itoa, fmt's %d, for n >= 0
RECURSIVE Itoa(_)
Itoa(n) == IF n < 10 THEN DigitChar(n) ELSE Itoa(n \div 10) \o DigitChar(n % 10)

AllDigits(s) == Len(s) >= 1 /\ \A i \in 1..Len(s) : Char(s, i) \in Digits

RECURSIVE DigitsValue(_)
DigitsValue(s) ==
    IF Len(s) = 0 THEN 0
    ELSE 10 * DigitsValue(SubSeq(s, 1, Len(s) - 1)) + DigitVal(Char(s, Len(s)))

\* strconv.Atoi with its error dropped: 0 for anything that is no number
Atoi(s) == IF AllDigits(s) THEN DigitsValue(s) ELSE 0

\* the first position >= p of s whose character is not in class
RECURSIVE RunEnd(_, _, _)
RunEnd(s, p, class) ==
    IF Char(s, p) \in class THEN RunEnd(s, p + 1, class) ELSE p

RECURSIVE Pow10(_)
Pow10(k) == IF k = 0 THEN 1 ELSE 10 * Pow10(k - 1)

(***************************************************************************)
(* Duration codec                                                          *)
(***************************************************************************)
HourChars == Digits \cup {"."}
Space == {" ", "\t", "\n", "\r", "\f"}

CountDots(s) == Cardinality({i \in 1..Len(s) : Char(s, i) = "."})

RECURSIVE StripDots(_)
StripDots(s) ==
    IF Len(s) = 0 THEN ""
    ELSE IF Char(s, 1) = "." THEN StripDots(SubSeq(s, 2, Len(s)))
    ELSE Char(s, 1) \o StripDots(SubSeq(s, 2, Len(s)))

(***************************************************************************)
(* Wide numbers.  A Go int has 64 bits and a float64 holds integers far    *)
(* beyond the integers of the model checker, so such a number is kept as   *)
(* its decimal numeral, a string of digits without leading zeros, and      *)
(* computed with digit by digit.                                           *)
(***************************************************************************)
\* the numeral without its leading zeros
Normalize(n) ==
    LET first == RunEnd(n, 1, {"0"})
    IN  IF first > Len(n) THEN "0" ELSE SubSeq(n, first, Len(n))

\* long division of the digits of n from position i on by d, r carried in:
\* <<quotient digits, remainder>>
RECURSIVE LongDiv(_, _, _, _)
LongDiv(n, i, r, d) ==
    IF i > Len(n) THEN <<"", r>>
    ELSE LET cur  == r * 10 + DigitVal(Char(n, i))
             rest == LongDiv(n, i + 1, cur % d, d)
         IN  <<DigitChar(cur \div d) \o rest[1], rest[2]>>

DivSmall(n, d) == Normalize(LongDiv(n, 1, 0, d)[1])
ModSmall(n, d) == LongDiv(n, 1, 0, d)[2]

\* the digits of n[1..i] * k + carry
RECURSIVE MulFrom(_, _, _, _)
MulFrom(n, i, k, carry) ==
    IF i = 0 THEN (IF carry = 0 THEN "" ELSE Itoa(carry))
    ELSE LET cur == DigitVal(Char(n, i)) * k + carry
         IN  MulFrom(n, i - 1, k, cur \div 10) \o DigitChar(cur % 10)

MulSmall(n, k) == Normalize(MulFrom(n, Len(n), k, 0))

\* the digits of a[1..i] + b[1..j] + carry
RECURSIVE AddFrom(_, _, _, _, _)
AddFrom(a, i, b, j, carry) ==
    IF i = 0 /\ j = 0 THEN (IF carry = 0 THEN "" ELSE "1")
    ELSE LET cur == (IF i > 0 THEN DigitVal(Char(a, i)) ELSE 0)
                        + (IF j > 0 THEN DigitVal(Char(b, j)) ELSE 0) + carry
         IN  AddFrom(a, IF i > 0 THEN i - 1 ELSE 0, b, IF j > 0 THEN j - 1 ELSE 0,
                     cur \div 10) \o DigitChar(cur % 10)

AddNum(a, b) == Normalize(AddFrom(a, Len(a), b, Len(b), 0))

RECURSIVE LexLess(_, _, _)
LexLess(a, b, i) ==
    IF i > Len(a) THEN FALSE
    ELSE IF Char(a, i) # Char(b, i) THEN DigitVal(Char(a, i)) < DigitVal(Char(b, i))
    ELSE LexLess(a, b, i + 1)

LessNum(a, b) == Len(a) < Len(b) \/ (Len(a) = Len(b) /\ LexLess(a, b, 1))

RECURSIVE Pow2(_)
Pow2(k) == IF k = 0 THEN 1 ELSE 2 * Pow2(k - 1)

\* 2^53: a float64 has 53 bits for the digits of a number
TwoTo53 == "9007199254740992"

\* the number of low bits of n that 53 bits cannot hold, for n below 2^73
DroppedBits(n) ==
    CHOOSE k \in 0..20 :
        /\ LessNum(DivSmall(n, Pow2(k)), TwoTo53)
        /\ k > 0 => ~LessNum(DivSmall(n, Pow2(k - 1)), TwoTo53)

\* n with its k low bits rounded away: to the nearest, a tie to the even one
RoundBits(n, k) ==
    LET q == DivSmall(n, Pow2(k))
        r == ModSmall(n, Pow2(k))
    IN  IF 2 * r > Pow2(k) \/ (2 * r = Pow2(k) /\ ModSmall(q, 2) = 1)
        THEN MulSmall(AddNum(q, "1"), Pow2(k))
        ELSE MulSmall(q, Pow2(k))

\* the float64 nearest to the integer n
Float64(n) == IF LessNum(n, TwoTo53) THEN n ELSE RoundBits(n, DroppedBits(n))

\* strconv.ParseFloat(s, 64) on a string of digits and dots, error dropped:
\* the value as a fraction <<num, den>> with num a numeral, 0 when s is no
\* number.  An integer is rounded to a float64; a number with a fraction is
\* kept exact, which for the short fractions of the model rounds to the
\* same number of seconds.
ParseFloat(s) ==
    LET dot == RunEnd(s, 1, Digits)
        ds  == StripDots(s)
    IN  IF CountDots(s) > 1 \/ Len(ds) = 0 THEN <<"0", 1>>
        ELSE IF CountDots(s) = 0 THEN <<Float64(Normalize(s)), 1>>
        ELSE <<Normalize(ds), Pow10(Len(s) - dot)>>

\* seconds += num * factor, for a float64 seconds that holds an integer
\* when den = 1 and for the exact fraction seconds/den otherwise
AddProduct(seconds, num, factor, den) ==
    IF den = 1 THEN Float64(AddNum(seconds, Float64(MulSmall(num, factor))))
    ELSE AddNum(seconds, MulSmall(num, factor))

FormatFloat0_Truncate(num, den) == DivSmall(num, den)

\* strconv.FormatFloat(num/den, 'f', 0, 64): nearest integer, ties to even
FormatFloat0(num, den) ==
    LET q == DivSmall(num, den)
        r == ModSmall(num, den)
    IN  IF 2 * r > den \/ (2 * r = den /\ ModSmall(q, 2) = 1) THEN AddNum(q, "1") ELSE q

\* regexp ((([0-9.]{1,})(h))?\s?(([0-9]?[0-9])(m))?) always matches at the
\* start of the string (every part is optional), each part taken greedily;
\* m[0] is that prefix, m[3] the hours number, m[6] the minutes number.
DurationStringToSeconds(duration) ==
    LET hEnd == RunEnd(duration, 1, HourChars)
        hasH == hEnd > 1 /\ Char(duration, hEnd) = "h"
        m3   == IF hasH THEN SubSeq(duration, 1, hEnd - 1) ELSE ""
        p1   == IF hasH THEN hEnd + 1 ELSE 1
        p2   == IF Char(duration, p1) \in Space THEN p1 + 1 ELSE p1
        two  == /\ Char(duration, p2) \in Digits
                /\ Char(duration, p2 + 1) \in Digits
                /\ Char(duration, p2 + 2) = "m"
        one  == Char(duration, p2) \in Digits /\ Char(duration, p2 + 1) = "m"
        m6   == IF two THEN SubSeq(duration, p2, p2 + 1)
                ELSE IF one THEN SubSeq(duration, p2, p2) ELSE ""
        end  == IF two THEN p2 + 3 ELSE IF one THEN p2 + 2 ELSE p2
        h    == IF m3 # "" THEN ParseFloat(m3) ELSE <<"0", 1>>
        mins == IF m6 # "" THEN ParseFloat(m6)[1] ELSE "0"
    IN  IF end > 1
        THEN [val |-> FormatFloat0(
                          AddProduct(AddProduct("0", h[1], 3600, h[2]),
                                     mins, 60 * h[2], h[2]),
                          h[2]),
              err |-> FALSE]
        ELSE [val |-> "", err |-> TRUE]

SecondsToHoursAndMinutes_NoPad(seconds, dropMinutes) ==
    IF dropMinutes THEN DivSmall(seconds, 3600) \o "h"
    ELSE DivSmall(seconds, 3600) \o "h " \o Itoa(ModSmall(seconds, 3600) \div 60) \o "m"

\* seconds is a Go int, given as its numeral
SecondsToHoursAndMinutes(seconds, dropMinutes) ==
    LET hours   == DivSmall(seconds, 3600)
        minutes == ModSmall(seconds, 3600) \div 60
    IN  IF dropMinutes THEN hours \o "h"
        ELSE IF minutes < 10 THEN hours \o "h 0" \o Itoa(minutes) \o "m"
        ELSE hours \o "h " \o Itoa(minutes) \o "m"

(***************************************************************************)
(* Calendar dates.  A time.Time at midnight UTC is the number of days      *)
(* since 0001-01-01, Go's zero time; that day was a Monday.                *)
(***************************************************************************)
IsLeap(y) == (y % 4 = 0 /\ y % 100 # 0) \/ y % 400 = 0

DaysIn(y, m) ==
    CASE m \in {1, 3, 5, 7, 8, 10, 12} -> 31
      [] m \in {4, 6, 9, 11} -> 30
      [] m = 2 -> IF IsLeap(y) THEN 29 ELSE 28

RECURSIVE DaysBeforeMonth(_, _)
DaysBeforeMonth(y, m) ==
    IF m = 1 THEN 0 ELSE DaysBeforeMonth(y, m - 1) + DaysIn(y, m - 1)

\* time.Date(y, m, d, 0, 0, 0, 0, time.UTC)
Date(y, m, d) ==
    365 * (y - 1) + ((y - 1) \div 4) - ((y - 1) \div 100) + ((y - 1) \div 400)
        + DaysBeforeMonth(y, m) + (d - 1)

\* t.Date(): the civil <<year, month, day>> of a day number
Civil(t) ==
    LET z   == t + 306
        era == z \div 146097
        doe == z - era * 146097
        yoe == (doe - (doe \div 1460) + (doe \div 36524) - (doe \div 146096)) \div 365
        doy == doe - (365 * yoe + (yoe \div 4) - (yoe \div 100))
        mp  == (5 * doy + 2) \div 153
        d   == doy - ((153 * mp + 2) \div 5) + 1
        m   == IF mp < 10 THEN mp + 3 ELSE mp - 9
        y   == yoe + era * 400 + (IF m <= 2 THEN 1 ELSE 0)
    IN  <<y, m, d>>

Sunday == 0
\* t.Weekday(): Sunday = 0 ... Saturday = 6
Weekday(t) == (t + 1) % 7

\* t.ISOWeek(): the year and week of the Thursday of t's week
ISOWeek(t) ==
    LET thursday == t - ((Weekday(t) + 6) % 7) + 3
        year     == Civil(thursday)[1]
        yday     == thursday - Date(year, 1, 1)
    IN  <<year, (yday \div 7) + 1>>

Pad(n, width) ==
    LET s == Itoa(n)
    IN  IF Len(s) >= width THEN s
        ELSE SubSeq("0000", 1, width - Len(s)) \o s

\* t.Format("2006-01-02")
FormatDate(t) ==
    LET c == Civil(t)
    IN  Pad(c[1], 4) \o "-" \o Pad(c[2], 2) \o "-" \o Pad(c[3], 2)

\* time.Parse("2006-01-02", s): the zero time and an error unless s is
\* yyyy-mm-dd with a month 1..12 and a day that month has
ParseDate(s) ==
    LET y == DigitsValue(SubSeq(s, 1, 4))
        m == DigitsValue(SubSeq(s, 6, 7))
        d == DigitsValue(SubSeq(s, 9, 10))
        shaped == /\ Len(s) = 10
                  /\ \A i \in {1, 2, 3, 4, 6, 7, 9, 10} : Char(s, i) \in Digits
                  /\ Char(s, 5) = "-" /\ Char(s, 8) = "-"
    IN  IF shaped /\ m \in 1..12 /\ d >= 1 /\ d <= DaysIn(y, m)
        THEN [t |-> Date(y, m, d), err |-> FALSE]
        ELSE [t |-> 0, err |-> TRUE]

WeekStartEndDate_FromSunday(year, week) ==
    LET t0 == Date(year, 7, 1)
        t1 == t0 - Weekday(t0)
        t2 == t1 + (week - ISOWeek(t1)[2]) * 7
    IN  <<FormatDate(t2), FormatDate(t2 + 6)>>

WeekStartEndDate(year, week) ==
    LET t0 == Date(year, 7, 1)
        wd == Weekday(t0)
        t1 == IF wd = Sunday THEN t0 - 6 ELSE t0 - wd + 1
        w  == ISOWeek(t1)[2]
        t2 == t1 + (week - w) * 7
        e  == t2 + 6
    IN  <<FormatDate(t2), FormatDate(e)>>

(***************************************************************************)
(* The week view as a program: a validated date is parsed, its ISO week is *)
(* taken and WeekStartEndDate gives the week's boundaries.                 *)
(***************************************************************************)
\* the years validate.Date lets through (^202[0-9]-)
ValidYears == 2020..2029

ValidDates ==
    {FormatDate(Date(y, m, d)) : <<y, m, d>> \in
        {c \in ValidYears \X (1..12) \X (1..31) : c[3] <= DaysIn(c[1], c[2])}}

InitWeekDate ==
    /\ pc = "parse"
    /\ input \in [date : ValidDates]
    /\ output = [t |-> None, iso |-> None, start |-> None, end |-> None]
    /\ NoCommand

WeekDateParse ==
    /\ pc = "parse"
    /\ LET t == ParseDate(input.date).t
       IN  output' = [output EXCEPT !.t = t, !.iso = ISOWeek(t)]
    /\ pc' = "week"
    /\ UNCHANGED <<input, cmdVars>>

WeekDateStartEnd ==
    /\ pc = "week"
    /\ LET se == WeekStartEndDate(output.iso[1], output.iso[2])
       IN  output' = [output EXCEPT !.start = se[1], !.end = se[2]]
    /\ pc' = "done"
    /\ UNCHANGED <<input, cmdVars>>

NextWeekDate == WeekDateParse \/ WeekDateStartEnd

SpecWeekDate == InitWeekDate /\ [][NextWeekDate]_vars

\* C9: for the ISO year and week of any date d, WeekStartEndDate returns a
\* Monday as start, start + 6 days (a Sunday) as end, and start <= d <= end.
C9_WeekContainsDate ==
    pc = "done" =>
        LET s == ParseDate(output.start)
            e == ParseDate(output.end)
        IN  /\ ~s.err /\ ~e.err
            /\ Weekday(s.t) = 1
            /\ e.t = s.t + 6
            /\ Weekday(e.t) = Sunday
            /\ s.t <= output.t /\ output.t <= e.t

\* a date whose ISO year is not its calendar year, in week 53
C9_Witness ==
    /\ pc = "done"
    /\ input.date = "2021-01-02"
    /\ output.iso = <<2020, 53>>
    /\ output.start = "2020-12-28"
    /\ output.end = "2021-01-03"

(***************************************************************************)
(* GroupWorklogsByWeek                                                     *)
(***************************************************************************)
InSlice(slice, x) == \E i \in 1..Len(slice) : slice[i] = x

\* Week.WorkDays(): the number of distinct dates among the week's worklogs
WorkDays(week) == Cardinality({week.Worklogs[i].Date : i \in 1..Len(week.Worklogs)})

RECURSIVE WeekWorklogs_SixDays(_, _)
WeekWorklogs_SixDays(t1, worklogs) ==
    IF worklogs = <<>> THEN <<>>
    ELSE LET w == Head(worklogs)
             d == ParseDate(w.Date).t
         IN  IF (t1 < d \/ t1 = d) /\ (t1 = d \/ t1 + 6 > d)
             THEN <<w>> \o WeekWorklogs_SixDays(t1, Tail(worklogs))
             ELSE IF d > t1 + 6 THEN <<>>
             ELSE WeekWorklogs_SixDays(t1, Tail(worklogs))

\* the loop over the worklogs for the week starting at t1: a worklog of the
\* week is appended, one dated after the week ends the loop, any other is
\* passed over
RECURSIVE WeekWorklogs(_, _)
WeekWorklogs(t1, worklogs) ==
    IF worklogs = <<>> THEN <<>>
    ELSE LET w == Head(worklogs)
             d == ParseDate(w.Date).t
         IN  IF (t1 < d \/ t1 = d) /\ (t1 = d \/ t1 + 7 > d)
             THEN <<w>> \o WeekWorklogs(t1, Tail(worklogs))
             ELSE IF d > t1 + 6 THEN <<>>
             ELSE WeekWorklogs(t1, Tail(worklogs))

RECURSIVE WeekHolidays_SevenDays(_, _)
WeekHolidays_SevenDays(t1, holidays) ==
    IF holidays = <<>> THEN 0
    ELSE LET d == ParseDate(Head(holidays)).t
         IN  (IF (t1 < d \/ t1 = d) /\ (t1 = d \/ t1 + 7 > d) THEN 1 ELSE 0)
                 + WeekHolidays_SevenDays(t1, Tail(holidays))

\* the loop over the holidays for the week starting at t1
RECURSIVE WeekHolidays(_, _)
WeekHolidays(t1, holidays) ==
    IF holidays = <<>> THEN 0
    ELSE LET d == ParseDate(Head(holidays)).t
         IN  (IF (t1 < d \/ t1 = d) /\ (t1 = d \/ t1 + 5 > d) THEN 1 ELSE 0)
                 + WeekHolidays(t1, Tail(holidays))

RECURSIVE WeeksFrom_StrictlyBefore(_, _, _, _)
WeeksFrom_StrictlyBefore(t1, t2, worklogs, holidays) ==
    IF t1 < t2
    THEN <<[StartDate      |-> t1,
            EndDate        |-> t1 + 6,
            PublicHolidays |-> WeekHolidays(t1, holidays),
            Worklogs       |-> WeekWorklogs(t1, worklogs)]>>
            \o WeeksFrom_StrictlyBefore(t1 + 7, t2, worklogs, holidays)
    ELSE <<>>

\* the loop  for t1.Before(t2) || t1.Equal(t2) { ...; t1 = t1.Add(7 days) }
RECURSIVE WeeksFrom(_, _, _, _)
WeeksFrom(t1, t2, worklogs, holidays) ==
    IF t1 < t2 \/ t1 = t2
    THEN <<[StartDate      |-> t1,
            EndDate        |-> t1 + 6,
            PublicHolidays |-> WeekHolidays(t1, holidays),
            Worklogs       |-> WeekWorklogs(t1, worklogs)]>>
            \o WeeksFrom(t1 + 7, t2, worklogs, holidays)
    ELSE <<>>

GroupWorklogsByWeek(fromDate, toDate, worklogs, holidays) ==
    WeeksFrom(ParseDate(fromDate).t, ParseDate(toDate).t, worklogs, holidays)

(***************************************************************************)
(* GroupWorklogsByWeek as a program: called once on a date range, a list   *)
(* of worklogs (in any order) and a list of holiday dates.                 *)
(***************************************************************************)
MaxToOffset == 14
MaxDayOffset == 8
MaxFromOffset == 1
MaxWorklogs == 2
MaxHolidays == 1

\* a Monday
BaseDay == Date(2024, 1, 1)

WindowDates == {FormatDate(BaseDay + k) : k \in 0..MaxDayOffset}

SeqsUpTo(S, n) == UNION {[1..k -> S] : k \in 0..n}

\* worklogs carry the server's distinct ids, here their place in the list
WorklogLists ==
    {[i \in 1..Len(ds) |-> [ID |-> i, Date |-> ds[i]]] : ds \in SeqsUpTo(WindowDates, MaxWorklogs)}

InitWeeks ==
    /\ pc = "group"
    /\ input \in [fromDate : {FormatDate(BaseDay + k) : k \in 0..MaxFromOffset},
                  toDate   : {FormatDate(BaseDay + k) : k \in 0..MaxToOffset},
                  worklogs : WorklogLists,
                  holidays : SeqsUpTo(WindowDates, MaxHolidays)]
    /\ output = None
    /\ NoCommand

Group ==
    /\ pc = "group"
    /\ output' = GroupWorklogsByWeek(input.fromDate, input.toDate,
                                     input.worklogs, input.holidays)
    /\ pc' = "done"
    /\ UNCHANGED <<input, cmdVars>>

NextWeeks == Group

SpecWeeks == InitWeeks /\ [][NextWeeks]_vars

DayOf(date) == ParseDate(date).t

SortedByDate(worklogs) ==
    \A i, j \in 1..Len(worklogs) : i < j => DayOf(worklogs[i].Date) <= DayOf(worklogs[j].Date)

\* the worklogs of the input dated in [start, start + 6], in input order
InWeek(worklogs, start) ==
    LET Dated(w) == start <= DayOf(w.Date) /\ DayOf(w.Date) <= start + 6
    IN  SelectSeq(worklogs, Dated)

Occurrences(weeks, w) ==
    Cardinality({<<k, j>> \in (1..Len(weeks)) \X (1..MaxWorklogs + 1) :
                    j <= Len(weeks[k].Worklogs) /\ weeks[k].Worklogs[j] = w})

EachWeekHoldsItsWorklogs ==
    /\ \A k \in 1..Len(output) :
           output[k].Worklogs = InWeek(input.worklogs, output[k].StartDate)
    /\ \A i \in 1..Len(input.worklogs) :
           LET d == DayOf(input.worklogs[i].Date)
           IN  (DayOf(input.fromDate) <= d /\ d < DayOf(input.fromDate) + 7 * Len(output))
                   => Occurrences(output, input.worklogs[i]) = 1

\* C6 as stated: whatever the order of the worklogs, each week holds exactly
\* the worklogs dated in [week start, week start + 6], each once.
C6_AnyOrder == pc = "done" => EachWeekHoldsItsWorklogs

\* C6 amended: for worklogs in non-decreasing date order (as
\* GetWorklogsSorted returns them), each week holds exactly the worklogs
\* dated in [week start, week start + 6], and every worklog dated inside
\* the covered range is in exactly one week.
C6_SortedByDate ==
    (pc = "done" /\ SortedByDate(input.worklogs)) => EachWeekHoldsItsWorklogs

\* 14 days from a Monday, worklogs on day 1 and day 8
C6_Witness ==
    /\ pc = "done"
    /\ input.fromDate = "2024-01-01" /\ input.toDate = "2024-01-14"
    /\ input.worklogs = <<[ID |-> 1, Date |-> "2024-01-01"], [ID |-> 2, Date |-> "2024-01-08"]>>
    /\ Len(output) = 2
    /\ \A k \in 1..2 : Len(output[k].Worklogs) = 1 /\ WorkDays(output[k]) = 1

HolidaysWithin(holidays, start, days) ==
    Cardinality({i \in 1..Len(holidays) :
                    start <= DayOf(holidays[i]) /\ DayOf(holidays[i]) <= start + days})

\* C7 as stated: a week's holiday count is the number of holidays dated in
\* [bucket_start, bucket_start + 5].
C7_SixDays ==
    pc = "done" =>
        \A k \in 1..Len(output) :
            output[k].PublicHolidays = HolidaysWithin(input.holidays, output[k].StartDate, 5)

\* C7 amended: a week's holiday count is the number of holidays dated in
\* [bucket_start, bucket_start + 4] (five days): a holiday on
\* bucket_start + 4 is counted, one on bucket_start + 5 or + 6 is not.
C7_FiveDays ==
    pc = "done" =>
        \A k \in 1..Len(output) :
            output[k].PublicHolidays = HolidaysWithin(input.holidays, output[k].StartDate, 4)

\* a holiday on the fifth day of the first week is counted there only
C7_Witness ==
    /\ pc = "done"
    /\ input.fromDate = "2024-01-01" /\ input.toDate = "2024-01-14"
    /\ input.holidays = <<"2024-01-05">>
    /\ output[1].PublicHolidays = 1
    /\ output[2].PublicHolidays = 0

\* C8: for from <= to there are (to - from) div 7 + 1 weeks, week i starting
\* at from + 7 * i and ending 6 days later, in order, empty weeks included;
\* for from > to there is no week.
C8_WeekCount ==
    pc = "done" =>
        LET f == DayOf(input.fromDate)
            t == DayOf(input.toDate)
        IN  IF f <= t
            THEN /\ Len(output) = ((t - f) \div 7) + 1
                 /\ \A i \in 1..Len(output) :
                        /\ output[i].StartDate = f + 7 * (i - 1)
                        /\ output[i].EndDate = output[i].StartDate + 6
            ELSE output = <<>>

\* three weeks, the middle one without a worklog
C8_Witness ==
    /\ pc = "done"
    /\ input.fromDate = "2024-01-01" /\ input.toDate = "2024-01-15"
    /\ Len(output) = 3
    /\ output[1].Worklogs # <<>>
    /\ output[2].Worklogs = <<>>
    /\ output[3].StartDate = DayOf("2024-01-15")

(***************************************************************************)
(* The duration codec as a program: format a number of seconds, then parse *)
(* the text back.                                                          *)
(***************************************************************************)
MaxSeconds == 7260

\* durations near 2^55 seconds, where a float64 holds every eighth integer
LongDurations ==
    {"36000", "359999940", "36028797018963900", "36028797018963960",
     "36028797018964020", "9223372036854775800"}

InitDuration ==
    /\ pc = "format"
    /\ input \in [seconds : {Itoa(n) : n \in 0..MaxSeconds} \cup LongDurations,
                  dropMinutes : BOOLEAN]
    /\ output = [text |-> None, parsed |-> None]
    /\ NoCommand

FormatDuration ==
    /\ pc = "format"
    /\ output' = [output EXCEPT
                    !.text = SecondsToHoursAndMinutes(input.seconds, input.dropMinutes)]
    /\ pc' = "parse"
    /\ UNCHANGED <<input, cmdVars>>

ParseDuration ==
    /\ pc = "parse"
    /\ output' = [output EXCEPT !.parsed = DurationStringToSeconds(output.text)]
    /\ pc' = "done"
    /\ UNCHANGED <<input, cmdVars>>

NextDuration == FormatDuration \/ ParseDuration

SpecDuration == InitDuration /\ [][NextDuration]_vars

\* C10: for every s >= 0 that is a multiple of 60, parsing the text that
\* SecondsToHoursAndMinutes(s, false) produces succeeds and gives back s.
C10_RoundTrip ==
    (pc = "done" /\ ~input.dropMinutes /\ ModSmall(input.seconds, 60) = 0)
        => /\ ~output.parsed.err
           /\ output.parsed.val = input.seconds

\* the text is the numeral hrs, then "h"
HoursOnly(text, hrs) == text = hrs \o "h"

\* the text is the numeral hrs, then "h ", two digits mm and "m"
HoursAndMinutes(text, hrs, mm) ==
    /\ text = hrs \o "h " \o mm \o "m"
    /\ Len(mm) = 2 /\ AllDigits(mm)

\* C14: SecondsToHoursAndMinutes(s, false) is "<H>h <MM>m" with H = s div
\* 3600 and MM = (s mod 3600) div 60 in exactly two digits, the seconds left
\* over dropped; SecondsToHoursAndMinutes(s, true) is "<H>h".
C14_Format ==
    pc # "format" =>
        LET hrs  == SubSeq(output.text, 1, RunEnd(output.text, 1, Digits) - 1)
            mm   == SubSeq(output.text, Len(hrs) + 3, Len(hrs) + 4)
            base == MulSmall(hrs, 3600)
        IN  /\ hrs # "" /\ hrs = Normalize(hrs)
            /\ IF input.dropMinutes
               THEN /\ HoursOnly(output.text, hrs)
                    /\ ~LessNum(input.seconds, base)
                    /\ LessNum(input.seconds, AddNum(base, "3600"))
               ELSE /\ HoursAndMinutes(output.text, hrs, mm)
                    /\ DigitsValue(mm) < 60
                    /\ ~LessNum(input.seconds, AddNum(base, Itoa(60 * DigitsValue(mm))))
                    /\ LessNum(input.seconds, AddNum(base, Itoa(60 * DigitsValue(mm) + 60)))

C14_Witness ==
    /\ pc = "done" /\ ~input.dropMinutes
    /\ input.seconds = "3901"
    /\ output.text = "1h 05m"

(***************************************************************************)
(* DurationStringToSeconds on typed text.  The text is put together from   *)
(* five parts: what stands before the duration, the hours component, the   *)
(* gap, the minutes component and what stands behind, so that a property   *)
(* can speak of the components the text was written with.                  *)
(***************************************************************************)
\* an hours component and the number num/den it writes; den = 0 where the
\* number is malformed, text = "" where the component is absent
HoursParts ==
    {[text |-> "",        num |-> 0,     den |-> 1],
     [text |-> "1h",      num |-> 1,     den |-> 1],
     [text |-> "12h",     num |-> 12,    den |-> 1],
     [text |-> "0.5h",    num |-> 5,     den |-> 10],
     [text |-> "1.5h",    num |-> 15,    den |-> 10],
     [text |-> "0.0002h", num |-> 2,     den |-> 10000],
     [text |-> "0.3333h", num |-> 3333,  den |-> 10000],
     [text |-> "1.0005h", num |-> 10005, den |-> 10000],
     [text |-> "1.2.3h",  num |-> 0,     den |-> 0]}

\* a minutes component and its number
MinutesParts ==
    {[text |-> "",    mins |-> 0],
     [text |-> "0m",  mins |-> 0],
     [text |-> "5m",  mins |-> 5],
     [text |-> "05m", mins |-> 5],
     [text |-> "85m", mins |-> 85]}

TypedDuration(i) == i.lead \o i.hours.text \o i.gap \o i.minutes.text \o i.trail

InitTyped ==
    /\ pc = "typed"
    /\ input \in [lead : {"", " ", "x"}, hours : HoursParts, gap : {"", " "},
                  minutes : MinutesParts,
                  trail : {"", "x", "30", "5x", "Wrong", " 1h"}]
    /\ output = None
    /\ NoCommand

ParseTyped ==
    /\ pc = "typed"
    /\ output' = DurationStringToSeconds(TypedDuration(input))
    /\ pc' = "done"
    /\ UNCHANGED <<input, cmdVars>>

SpecTyped == InitTyped /\ [][ParseTyped]_vars

\* the text is an hours component, a minutes component, or an hours
\* component, at most one blank and a minutes component, and nothing else
WellFormed(i) ==
    /\ i.lead = "" /\ i.trail = ""
    /\ i.hours.den > 0
    /\ i.hours.text # "" \/ i.minutes.text # ""
    /\ i.gap # "" => (i.hours.text # "" /\ i.minutes.text # "")

\* hours*3600 + minutes*60 is Numerator(i) / i.hours.den
Numerator(i) == i.hours.num * 3600 + i.minutes.mins * 60 * i.hours.den

WholeSeconds(i) == Numerator(i) % i.hours.den = 0

\* the text was written without any component
NoComponent(i) ==
    i.hours.text = "" /\ i.minutes.text = "" /\ i.trail # " 1h"

DocumentedValues ==
    (pc = "done" /\ WellFormed(input) /\ WholeSeconds(input))
        => /\ ~output.err
           /\ output.val = Itoa(Numerator(input) \div input.hours.den)

NoMatchIsError ==
    (pc = "done" /\ NoComponent(input)) => (output.err /\ output.val = "")

\* C11: for an hours-only, a minutes-only and an hours-then-minutes string
\* DurationStringToSeconds returns hours*3600 + minutes*60, and for a string
\* in which neither component matches it returns an error and the empty
\* string.
C11_CodecContract == DocumentedValues /\ NoMatchIsError

\* C12: DurationStringToSeconds succeeds only for a string that is entirely
\* an hours component, a minutes component, or hours followed by minutes;
\* every other string gives the error, never a partial value.
C12_WholeStringOnly ==
    (pc = "done" /\ ~output.err) => WellFormed(input)

\* C13: where hours*3600 + minutes*60 is not a whole number of seconds the
\* result is the largest integer not above it.
C13_Truncated ==
    (pc = "done" /\ WellFormed(input) /\ ~WholeSeconds(input))
        => /\ ~output.err
           /\ output.val = Itoa(Numerator(input) \div input.hours.den)

\* C13 as the code has it: where hours*3600 + minutes*60 is not a whole
\* number of seconds the result is the integer nearest to it, which is the
\* next integer above when the fraction is more than one half.
C13_Rounded ==
    (pc = "done" /\ WellFormed(input) /\ ~WholeSeconds(input))
        => /\ ~output.err
           /\ AllDigits(output.val)
           /\ 2 * (Atoi(output.val) * input.hours.den - Numerator(input)) < input.hours.den
           /\ 2 * (Numerator(input) - Atoi(output.val) * input.hours.den) < input.hours.den

C13_Witness ==
    /\ pc = "done" /\ WellFormed(input) /\ ~WholeSeconds(input)
    /\ ~output.err
    /\ Atoi(output.val) * input.hours.den > Numerator(input)

(***************************************************************************)
(* printStatistics: the colours of a week's work days, average and total.  *)
(* A float64 number of hours is kept as the exact fraction <<num, den>>.   *)
(***************************************************************************)
\* a >= b on fractions with positive denominators
AtLeast(a, b) == a[1] * b[2] >= b[1] * a[2]

\* Week.TotalTime: the seconds of the week's worklogs, in hours
RECURSIVE TimeSpentSum(_)
TimeSpentSum(worklogs) ==
    IF worklogs = <<>> THEN 0
    ELSE Head(worklogs).TimeSpent + TimeSpentSum(Tail(worklogs))

TotalTime(week) == <<TimeSpentSum(week.Worklogs), 3600>>

Average(week) ==
    IF WorkDays(week) = 0 THEN <<0, 1>>
    ELSE <<TotalTime(week)[1], TotalTime(week)[2] * WorkDays(week)>>

StatsTotal_ZeroFirst(tot, goal, hoursPrDay, holidays) ==
    IF tot[1] = 0 THEN "Blue"
    ELSE IF AtLeast(tot, <<goal[1] * hoursPrDay[2] - hoursPrDay[1] * holidays * goal[2],
                           goal[2] * hoursPrDay[2]>>) THEN "Green"
    ELSE "Red"

\* the colour StatsTotal prints the total in
StatsTotal(tot, goal, hoursPrDay, holidays) ==
    IF AtLeast(tot, <<goal[1] * hoursPrDay[2] - hoursPrDay[1] * holidays * goal[2],
                      goal[2] * hoursPrDay[2]>>) THEN "Green"
    ELSE IF tot[1] = 0 THEN "Blue"
    ELSE "Red"

StatsAverage(avg, goal) ==
    IF AtLeast(avg, goal) THEN "Green"
    ELSE IF avg[1] = 0 THEN "Blue"
    ELSE "Red"

StatsWorkdays(days, goal, holidays) ==
    IF days >= goal - holidays THEN "Green"
    ELSE IF days = 0 THEN "Blue"
    ELSE "Red"

\* the configuration: 7.5 hours a day, 37.5 hours a week, 5 working days
Cfg ==
    [WorkingHoursPerDay |-> <<75, 10>>, WorkingHoursPerWeek |-> <<375, 10>>,
     NumWorkingDays |-> 5]

\* what may be logged on one day of the week: nothing, or one worklog of
\* 0 seconds, 4, 7.5 or 8 hours
DayLogs(date) ==
    {<<>>} \cup {<<[Date |-> date, TimeSpent |-> t]>> : t \in {0, 14400, 27000, 28800}}

StatsWeeks ==
    {[Worklogs |-> mon \o tue \o wed \o thu \o fri, PublicHolidays |-> h] :
        mon \in DayLogs("2021-03-01"), tue \in DayLogs("2021-03-02"),
        wed \in DayLogs("2021-03-03"), thu \in DayLogs("2021-03-04"),
        fri \in DayLogs("2021-03-05"), h \in 0..5}

InitStats ==
    /\ pc = "stats"
    /\ input \in StatsWeeks
    /\ output = None
    /\ NoCommand

\* one round of the loop of printStatistics
PrintStatistics ==
    /\ pc = "stats"
    /\ output' = [avg  |-> StatsAverage(Average(input), Cfg.WorkingHoursPerDay),
                  tot  |-> StatsTotal(TotalTime(input), Cfg.WorkingHoursPerWeek,
                                      Cfg.WorkingHoursPerDay, input.PublicHolidays),
                  days |-> StatsWorkdays(WorkDays(input), Cfg.NumWorkingDays,
                                         input.PublicHolidays)]
    /\ pc' = "done"
    /\ UNCHANGED <<input, cmdVars>>

SpecStats == InitStats /\ [][PrintStatistics]_vars

\* the flag of a value: on target, else empty when it is 0, else below
Flag(onTarget, zero) == IF onTarget THEN "Green" ELSE IF zero THEN "Blue" ELSE "Red"

\* the seconds logged in the week and the days they were logged on
LoggedSeconds == TimeSpentSum(input.Worklogs)
LoggedDays == Cardinality({input.Worklogs[i].Date : i \in 1..Len(input.Worklogs)})

\* C20: the total is on target exactly when it is at least hours per week
\* less hours per day for each holiday, the average exactly when it is at
\* least hours per day, the work days exactly when they are at least the
\* working days less the holidays; a value not on target is flagged empty
\* when it is 0 and below target otherwise, the on-target test coming first.
C20_Colouring ==
    pc = "done" =>
        /\ output.tot = Flag(LoggedSeconds >= 135000 - 27000 * input.PublicHolidays,
                             LoggedSeconds = 0)
        /\ output.avg = Flag(LoggedDays > 0 /\ LoggedSeconds >= 27000 * LoggedDays,
                             LoggedDays = 0 \/ LoggedSeconds = 0)
        /\ output.days = Flag(LoggedDays >= 5 - input.PublicHolidays, LoggedDays = 0)

\* a week of five holidays and no work: the total 0 is on target, not empty
C20_Witness ==
    /\ pc = "done"
    /\ input.PublicHolidays = 5 /\ input.Worklogs = <<>>
    /\ output.tot = "Green" /\ output.days = "Green" /\ output.avg = "Blue"

(***************************************************************************)
(* The create command                                                      *)
(***************************************************************************)
LowerCase == "abcdefghijklmnopqrstuvwxyz"
UpperCase == "ABCDEFGHIJKLMNOPQRSTUVWXYZ"
Letters(alphabet) == {Char(alphabet, i) : i \in 1..Len(alphabet)}

ToUpperChar(c) ==
    IF c \in Letters(LowerCase)
    THEN Char(UpperCase, CHOOSE i \in 1..Len(LowerCase) : Char(LowerCase, i) = c)
    ELSE c

\* strings.ToUpper
RECURSIVE ToUpper(_)
ToUpper(s) ==
    IF Len(s) = 0 THEN "" ELSE ToUpperChar(Char(s, 1)) \o ToUpper(SubSeq(s, 2, Len(s)))

\* the last position <= p of s whose character is not in class, 0 if none
RECURSIVE RunStart(_, _, _)
RunStart(s, p, class) ==
    IF p >= 1 /\ Char(s, p) \in class THEN RunStart(s, p - 1, class) ELSE p

\* strings.TrimSpace, bytes.TrimSpace
TrimSpace(s) ==
    LET a == RunEnd(s, 1, Space)
        b == RunStart(s, Len(s), Space)
    IN  IF a > b THEN "" ELSE SubSeq(s, a, b)

\* json.Marshal of a string without its surrounding quotes
RECURSIVE JSONEscape(_)
JSONEscape(s) ==
    IF Len(s) = 0 THEN ""
    ELSE LET c == Char(s, 1)
             e == CASE c = "\"" -> "\\\""
                    [] c = "\\" -> "\\\\"
                    [] c = "\n" -> "\\n"
                    [] OTHER -> c
         IN  e \o JSONEscape(SubSeq(s, 2, Len(s)))

\* re.Find for the two shapes of regRange the prompts use: the class [y|n]
\* (the first of its characters found anywhere in s) and ^([0-N])$
ReFind(regRange, s) ==
    IF regRange = "[y|n]"
    THEN LET p == RunEnd(s, 1, Letters(s) \ {"y", "|", "n"})
         IN  IF p <= Len(s) THEN Char(s, p) ELSE None
    ELSE IF Len(s) = 1 /\ s \in Digits /\ DigitVal(s) <= DigitVal(Char(regRange, 6))
         THEN s ELSE None

\* one round of GetUserInput's loop on the line the user typed: an empty
\* line cancels (os.Exit(0)), a line without a match is asked for again
GetUserInput(line, regRange) ==
    IF Char(line, 1) = "\n" THEN [exit |-> TRUE, retry |-> FALSE, answer |-> None]
    ELSE LET m == ReFind(regRange, TrimSpace(line))
         IN  [exit |-> FALSE, retry |-> m = None, answer |-> m]

\* validate.ProjectKey: the project with that key, the empty project if none
ProjectKey(key, projects) ==
    IF \E i \in 1..Len(projects) : key = ToUpper(projects[i].Key)
    THEN projects[CHOOSE i \in 1..Len(projects) :
                     /\ key = ToUpper(projects[i].Key)
                     /\ \A j \in 1..(i - 1) : key # ToUpper(projects[j].Key)]
    ELSE [ID |-> "", Key |-> ""]

\* what the server offers
ValidProjects == <<[ID |-> "10000", Key |-> "GOJ"]>>
IssueTypes == <<[ID |-> "1", Name |-> "Bug"], [ID |-> "3", Name |-> "Task"]>>
Priorities == <<[ID |-> "2", Name |-> "High"], [ID |-> "4", Name |-> "Low"]>>

\* what the user may type at a prompt, and write in the editor
UserLines == {"\n", "y\n", "n\n", "no\n", "0\n", "1\n", "7\n"}
SummaryLines == {"\n", "Fix login\n", " say \"hi\" \n"}
Descriptions == {"", "Steps:\n1 run\n"}
ProjectArgs == {"goj", "GOJ", "XY"}

IndexRange(list) == "^([0-" \o Itoa(Len(list) - 1) \o "])$"

InitCreate ==
    /\ pc = "validate"
    /\ input \in [key : ProjectArgs]
    /\ output = [project |-> None, summary |-> None, rawSummary |-> None,
                 issueTypeID |-> None, priorityID |-> None, desc |-> None,
                 answer |-> None, newKey |-> None, active |-> None]
    /\ calls = <<>>
    /\ exitCode = None
    /\ NoEdit

Exit(code) == pc' = "exit" /\ exitCode' = code

CreateValidate ==
    /\ pc = "validate"
    /\ LET project == ProjectKey(ToUpper(input.key), ValidProjects)
       IN  IF project.ID = ""
           THEN Exit(1) /\ UNCHANGED output
           ELSE /\ output' = [output EXCEPT !.project = project]
                /\ pc' = "summary"
                /\ UNCHANGED exitCode
    /\ UNCHANGED <<input, calls, editVars>>

CreateSummary ==
    /\ pc = "summary"
    /\ \E line \in SummaryLines :
           IF Char(line, 1) = "\n"
           THEN Exit(0) /\ UNCHANGED output
           ELSE /\ output' = [output EXCEPT !.summary = JSONEscape(TrimSpace(line)),
                                            !.rawSummary = TrimSpace(line)]
                /\ pc' = "issuetype"
                /\ UNCHANGED exitCode
    /\ UNCHANGED <<input, calls, editVars>>

CreateIssueType ==
    /\ pc = "issuetype"
    /\ \E line \in UserLines :
           LET r == GetUserInput(line, IndexRange(IssueTypes))
           IN  IF r.exit THEN Exit(0) /\ UNCHANGED output
               ELSE IF r.retry THEN UNCHANGED <<pc, output, exitCode>>
               ELSE /\ output' = [output EXCEPT !.issueTypeID = IssueTypes[Atoi(r.answer) + 1].ID]
                    /\ pc' = "priority"
                    /\ UNCHANGED exitCode
    /\ UNCHANGED <<input, calls, editVars>>

CreatePriority ==
    /\ pc = "priority"
    /\ \E line \in UserLines :
           LET r == GetUserInput(line, IndexRange(Priorities))
           IN  IF r.exit THEN Exit(0) /\ UNCHANGED output
               ELSE IF r.retry THEN UNCHANGED <<pc, output, exitCode>>
               ELSE /\ output' = [output EXCEPT !.priorityID = Priorities[Atoi(r.answer) + 1].ID]
                    /\ pc' = "description"
                    /\ UNCHANGED exitCode
    /\ UNCHANGED <<input, calls, editVars>>

\* the editor gives the text the user wrote, or fails to start
CreateDescription ==
    /\ pc = "description"
    /\ \/ \E desc \in Descriptions :
              /\ output' = [output EXCEPT !.desc = JSONEscape(desc)]
              /\ pc' = "confirm"
              /\ UNCHANGED exitCode
       \/ Exit(1) /\ UNCHANGED output
    /\ UNCHANGED <<input, calls, editVars>>

\* getUserInputConfirmOk; createCmd does not read what it returns
CreateConfirm ==
    /\ pc = "confirm"
    /\ \E line \in UserLines :
           LET r == GetUserInput(line, "[y|n]")
           IN  IF r.exit THEN Exit(0) /\ UNCHANGED output
               ELSE IF r.retry THEN UNCHANGED <<pc, output, exitCode>>
               ELSE /\ output' = [output EXCEPT !.answer = r.answer]
                    /\ pc' = "create"
                    /\ UNCHANGED exitCode
    /\ UNCHANGED <<input, calls, editVars>>

\* createNewIssue: one POST, which the server accepts or not
CreateNewIssue ==
    /\ pc = "create"
    /\ \E ok \in BOOLEAN :
           /\ calls' = Append(calls,
                  [method |-> "POST", url |-> "/rest/api/2/issue", ok |-> ok,
                   payload |-> [project     |-> output.project.ID,
                                summary     |-> output.summary,
                                description |-> output.desc,
                                issuetype   |-> output.issueTypeID,
                                priority    |-> output.priorityID,
                                customfield_10707 |-> output.issueTypeID \in {"3", "4"}]])
           /\ IF ok
              THEN /\ output' = [output EXCEPT !.newKey = output.project.Key \o "-1"]
                   /\ pc' = "setactive"
                   /\ UNCHANGED exitCode
              ELSE Exit(1) /\ UNCHANGED output
    /\ UNCHANGED <<input, editVars>>

CreateSetActive ==
    /\ pc = "setactive"
    /\ \E line \in UserLines :
           LET r == GetUserInput(line, "[y|n]")
           IN  IF r.exit THEN Exit(0) /\ UNCHANGED output
               ELSE IF r.retry THEN UNCHANGED <<pc, output, exitCode>>
               ELSE /\ output' = [output EXCEPT
                                     !.active = IF r.answer = "y" THEN output.newKey ELSE None]
                    /\ pc' = "done"
                    /\ exitCode' = 0
    /\ UNCHANGED <<input, calls, editVars>>

NextCreate ==
    \/ CreateValidate \/ CreateSummary \/ CreateIssueType \/ CreatePriority
    \/ CreateDescription \/ CreateConfirm \/ CreateNewIssue \/ CreateSetActive

SpecCreate == InitCreate /\ [][NextCreate]_vars

\* C5: a create-issue request is sent only if the user answered y at the
\* final confirmation prompt.
C5_CreateOnlyIfConfirmed ==
    \A i \in 1..Len(calls) :
        calls[i].url = "/rest/api/2/issue" => output.answer = "y"

(***************************************************************************)
(* parseEditedWorklog                                                      *)
(***************************************************************************)
CommentChars == Letters(UpperCase) \cup Letters(LowerCase) \cup Digits \cup {","} \cup Space

NoMatch == [ok |-> FALSE]

\* how ([0-9.]{1,}h)? may match at a, best first: the position after it
HoursOpts(s, a) ==
    LET h == RunEnd(s, a, HourChars)
    IN  IF h > a /\ Char(s, h) = "h" THEN <<h + 1, a>> ELSE <<a>>

\* how \s? may match at b, best first
SpaceOpts(s, b) == IF Char(s, b) \in Space THEN <<b + 1, b>> ELSE <<b>>

\* how ([0-6]?[0-9]m)? may match at c, best first
MinuteOpts(s, c) ==
    (IF /\ Char(s, c) \in {"0", "1", "2", "3", "4", "5", "6"}
        /\ Char(s, c + 1) \in Digits
        /\ Char(s, c + 2) = "m"
     THEN <<c + 3>> ELSE <<>>)
    \o (IF Char(s, c) \in Digits /\ Char(s, c + 1) = "m" THEN <<c + 2>> ELSE <<>>)
    \o <<c>>

RECURSIVE AllSpaceOpts(_, _)
AllSpaceOpts(s, ps) ==
    IF ps = <<>> THEN <<>> ELSE SpaceOpts(s, Head(ps)) \o AllSpaceOpts(s, Tail(ps))

RECURSIVE AllMinuteOpts(_, _)
AllMinuteOpts(s, ps) ==
    IF ps = <<>> THEN <<>> ELSE MinuteOpts(s, Head(ps)) \o AllMinuteOpts(s, Tail(ps))

\* the positions at which the duration group may end when it starts at a,
\* in the order a backtracking matcher tries them
DurationEnds(s, a) == AllMinuteOpts(s, AllSpaceOpts(s, HoursOpts(s, a)))

\* \s*([A-Za-z0-9,\s]+) at d: where the comment starts, 0 if it cannot
\* match.  \s* takes the whole run of white space unless nothing the comment
\* accepts follows it; the comment then is the run's last character.
CommentStart(s, d) ==
    LET w == RunEnd(s, d, Space)
    IN  IF Char(s, w) \in CommentChars THEN w
        ELSE IF w > d THEN w - 1
        ELSE 0

RECURSIVE FirstTail(_, _, _)
FirstTail(s, a, ends) ==
    IF ends = <<>> THEN NoMatch
    ELSE IF CommentStart(s, Head(ends)) # 0
    THEN LET e == CommentStart(s, Head(ends))
             x == RunEnd(s, e, CommentChars)
         IN  [ok |-> TRUE, dur |-> SubSeq(s, a, Head(ends) - 1),
              comment |-> SubSeq(s, e, x - 1), end |-> x]
    ELSE FirstTail(s, a, Tail(ends))

\* the \s{1,} after the time gives back white space, one character at a
\* time, until duration and comment match behind it
RECURSIVE TailAfterTime(_, _, _)
TailAfterTime(s, q, k) ==
    IF k < 1 THEN NoMatch
    ELSE LET m == FirstTail(s, q + k, DurationEnds(s, q + k))
         IN  IF m.ok THEN m ELSE TailAfterTime(s, q, k - 1)

TimeAt(s, p) ==
    /\ \/ Char(s, p) \in {"0", "1"} /\ Char(s, p + 1) \in Digits
       \/ Char(s, p) = "2" /\ Char(s, p + 1) \in {"0", "1", "2", "3"}
    /\ Char(s, p + 2) = ":"
    /\ Char(s, p + 3) \in {"0", "1", "2", "3", "4", "5"}
    /\ Char(s, p + 4) \in Digits

\* the worklog regexp tried at position p of s: whether it matches, the
\* submatches parseEditedWorklog reads (1 id, 2 key, 3 time, 5 duration,
\* 8 comment) and the position after the match
MatchAt(s, p) ==
    LET p1     == IF Char(s, p + 1) = "#" THEN p + 2 ELSE p + 1
        digits == RunEnd(s, p1, Digits) - p1 >= 6
        isNew  == Len(s) >= p1 + 2 /\ SubSeq(s, p1, p1 + 2) = "new"
        p2     == IF digits THEN p1 + 6 ELSE p1 + 3
        k0     == RunEnd(s, p2 + 1, Space)
        k1     == RunEnd(s, k0, Letters(UpperCase))
        k2     == RunEnd(s, k1 + 1, Digits)
        t0     == RunEnd(s, k2, Space)
        q      == t0 + 5
    IN  IF /\ Char(s, p) = "("
           /\ digits \/ isNew
           /\ Char(s, p2) = ")"
           /\ k0 > p2 + 1
           /\ k1 - k0 >= 2 /\ k1 - k0 <= 9
           /\ Char(s, k1) = "-"
           /\ k2 - (k1 + 1) >= 1 /\ k2 - (k1 + 1) <= 4
           /\ t0 > k2
           /\ TimeAt(s, t0)
        THEN LET m == TailAfterTime(s, q, RunEnd(s, q, Space) - q)
             IN  IF m.ok
                 THEN [ok |-> TRUE, id |-> SubSeq(s, p1, p2 - 1),
                       key |-> SubSeq(s, k0, k2 - 1), time |-> SubSeq(s, t0, t0 + 4),
                       dur |-> m.dur, comment |-> m.comment, end |-> m.end]
                 ELSE NoMatch
        ELSE NoMatch

\* the first position >= p of s that holds "(", where alone a match can
\* start; Len(s) + 1 when there is none
NextParen(s, p) ==
    LET at == {i \in p..Len(s) : Char(s, i) = "("}
    IN  IF at = {} THEN Len(s) + 1 ELSE CHOOSE i \in at : \A j \in at : i <= j

\* re.FindAllStringSubmatch(s, -1) from position p on: the matches from left
\* to right, each search starting where the match before it ended
RECURSIVE FindAllStringSubmatch(_, _)
RECURSIVE FindNext(_, _, _)
FindNext(s, p, m) ==
    IF m.ok THEN <<m>> \o FindAllStringSubmatch(s, m.end)
    ELSE FindAllStringSubmatch(s, p + 1)

FindAllStringSubmatch(s, p) ==
    IF NextParen(s, p) > Len(s) THEN <<>>
    ELSE FindNext(s, NextParen(s, p), MatchAt(s, NextParen(s, p)))

NewID == 1

\* the record parseEditedWorklog builds from one match and the seconds, or
\* the error, its duration converted to; cobra.CheckErr ends the command
\* on the error
EditedRecord(date, match, d) ==
    [ID        |-> IF match.id = "new" THEN NewID ELSE Atoi(match.id),
     Key       |-> match.key,
     StartDate |-> date \o " " \o match.time,
     TimeSpent |-> Atoi(d.val),
     Comment   |-> TrimSpace(match.comment),
     err       |-> d.err]

\* the converter of package cmd, taken to convert as the one of package
\* format does
convertDurationStringToSeconds(duration) == DurationStringToSeconds(duration)

RECURSIVE EditedRecords(_, _)
EditedRecords(date, m) ==
    IF m = <<>> THEN <<>>
    ELSE <<EditedRecord(date, Head(m), convertDurationStringToSeconds(Head(m).dur))>>
             \o EditedRecords(date, Tail(m))

parseEditedWorklog(date, logs) == EditedRecords(date, FindAllStringSubmatch(logs, 1))

(***************************************************************************)
(* edit myworklog: fetch, render, edit                                     *)
(***************************************************************************)
\* strings.Split(s, sep) for a separator of one character
RECURSIVE Split(_, _)
Split(s, sep) ==
    LET e == CHOOSE i \in 1..(Len(s) + 1) :
                 /\ i = Len(s) + 1 \/ Char(s, i) = sep
                 /\ \A j \in 1..(i - 1) : Char(s, j) # sep
    IN  IF e > Len(s) THEN <<s>>
        ELSE <<SubSeq(s, 1, e - 1)>> \o Split(SubSeq(s, e + 1, Len(s)), sep)

\* 202[0-9]-((0[1-9])|(1[0-2]))-((0[1-9])|([1-2][0-9])|(3[0-1])) at p
DatePatternAt(s, p) ==
    /\ SubSeq(s, p, p + 2) = "202" /\ Char(s, p + 3) \in Digits
    /\ Char(s, p + 4) = "-"
    /\ \/ Char(s, p + 5) = "0" /\ Char(s, p + 6) \in Digits \ {"0"}
       \/ Char(s, p + 5) = "1" /\ Char(s, p + 6) \in {"0", "1", "2"}
    /\ Char(s, p + 7) = "-"
    /\ \/ Char(s, p + 8) = "0" /\ Char(s, p + 9) \in Digits \ {"0"}
       \/ Char(s, p + 8) \in {"1", "2"} /\ Char(s, p + 9) \in Digits
       \/ Char(s, p + 8) = "3" /\ Char(s, p + 9) \in {"0", "1"}

\* re.MatchString(date): the pattern is not anchored
validateDate(date) ==
    \E p \in 1..Len(date) : p + 9 <= Len(date) /\ DatePatternAt(date, p)

UnixEpochDay == Date(1970, 1, 1)

\* time.Unix(0, ms * 1e6).Format("2006-01-02 15:04") of a timestamp; the
\* model counts the timestamp in seconds and reads the clock in UTC
FormatStartDate(seconds) ==
    LET m == (seconds % 86400) \div 60
    IN  FormatDate(UnixEpochDay + (seconds \div 86400)) \o " "
            \o Pad(m \div 60, 2) \o ":" \o Pad(m % 60, 2)

Truncate(s, max, truncate) ==
    IF Len(s) > max /\ truncate THEN SubSeq(s, 1, max) \o ".." ELSE s

\* the records GetWorklogsSorted builds, in the order of the response
RECURSIVE Simplified(_, _)
Simplified(timesheet, truncate) ==
    IF timesheet = <<>> THEN <<>>
    ELSE LET wl == Head(timesheet)
         IN  [i \in 1..Len(wl.Entries) |->
                 [ID        |-> wl.Entries[i].ID,
                  Date      |-> SubSeq(FormatStartDate(wl.Entries[i].StartDate), 1, 10),
                  StartDate |-> FormatStartDate(wl.Entries[i].StartDate),
                  Key       |-> wl.Key,
                  Summary   |-> Truncate(wl.Summary, 40, truncate),
                  Comment   |-> Truncate(wl.Entries[i].Comment, 31, truncate),
                  TimeSpent |-> wl.Entries[i].TimeSpent]]
             \o Simplified(Tail(timesheet), truncate)

\* the byte of a character of a "2006-01-02 15:04" string
Byte(c) ==
    CASE c = " " -> 32 [] c = "-" -> 45 [] c = ":" -> 58 [] OTHER -> 48 + DigitVal(c)

\* a < b on strings: the first byte that differs decides, a prefix is less
RECURSIVE StringLess(_, _, _)
StringLess(a, b, i) ==
    IF i > Len(b) THEN FALSE
    ELSE IF i > Len(a) THEN TRUE
    ELSE IF Char(a, i) # Char(b, i) THEN Byte(Char(a, i)) < Byte(Char(b, i))
    ELSE StringLess(a, b, i + 1)

GetWorklogsSorted_Unsorted(timesheet, truncate) == {Simplified(timesheet, truncate)}

\* sort.Slice is not stable: every arrangement of the records in which no
\* record is followed by one with a lesser StartDate is a possible result.
GetWorklogsSorted(timesheet, truncate) ==
    LET week == Simplified(timesheet, truncate)
        n    == Len(week)
    IN  {[i \in 1..n |-> week[p[i]]] :
            p \in {q \in [1..n -> 1..n] :
                      /\ \A i, j \in 1..n : i # j => q[i] # q[j]
                      /\ \A i \in 1..(n - 1) :
                             ~StringLess(week[q[i + 1]].StartDate, week[q[i]].StartDate, 1)}}

\* cmd's convertSecondsToHoursAndMinutes: minutes are not padded
convertSecondsToHoursAndMinutes(seconds, dropMinutes) ==
    LET hours   == seconds \div 3600
        minutes == (seconds % 3600) \div 60
    IN  IF dropMinutes THEN Itoa(hours) \o "h"
        ELSE Itoa(hours) \o "h " \o Itoa(minutes) \o "m"

\* the template function getTime
getTime(date) == Split(date, " ")[2]

\* edit-worklog.tmpl: one line per worklog with the columns the parser
\* reads, in its order: id marker, key, time, duration, comment
RECURSIVE executeInternalTemplate(_)
executeInternalTemplate(content) ==
    IF content = <<>> THEN ""
    ELSE LET w == Head(content)
         IN  "(#" \o Itoa(w.ID) \o ")    " \o w.Key \o "    " \o getTime(w.StartDate)
                 \o "    " \o convertSecondsToHoursAndMinutes(w.TimeSpent, FALSE)
                 \o "    " \o w.Comment \o "\n"
                 \o executeInternalTemplate(Tail(content))

(***************************************************************************)
(* edit myworklog: reconcile                                               *)
(***************************************************************************)
\* update(): every status but these three is an error
UpdateErr_IgnoreStatus(status) == FALSE

UpdateErr(status) == status \notin {200, 201, 204}

\* setWorkStarttime: the current time with its date replaced by workDate;
\* workTime is not used
setWorkStarttime(workDate, now) ==
    IF workDate = "" THEN now ELSE workDate \o SubSeq(now, 11, Len(now))

\* the request updateWorklog sends; err when StartDate is not "date time"
updateWorklog(worklog, now) ==
    LET dateAndTime == Split(worklog.StartDate, " ")
    IN  IF Len(dateAndTime) # 2 THEN [err |-> TRUE]
        ELSE [err     |-> FALSE,
              method  |-> "PUT",
              url     |-> "/rest/api/2/issue/" \o ToUpper(worklog.Key)
                              \o "/worklog/" \o Itoa(worklog.ID) \o "/",
              payload |-> [id               |-> Itoa(worklog.ID),
                           comment          |-> worklog.Comment,
                           started          |-> setWorkStarttime(dateAndTime[1], now),
                           timeSpentSeconds |-> Itoa(worklog.TimeSpent)]]

\* the request addWork sends
addWork(key, seconds, comment, workDate, now) ==
    [method  |-> "POST",
     url     |-> "/rest/api/2/issue/" \o ToUpper(key) \o "/worklog",
     payload |-> [comment          |-> IF comment = "" THEN "Worklog updated by Gojira"
                                       ELSE comment,
                  started          |-> setWorkStarttime(workDate, now),
                  timeSpentSeconds |-> seconds]]

\* the test of updateChangedWorklogs
Changed_IgnoreComment(e, w) ==
    e.ID = w.ID /\ (e.StartDate # w.StartDate \/ e.TimeSpent # w.TimeSpent)

Changed(e, w) ==
    e.ID = w.ID /\ (e.StartDate # w.StartDate \/ e.TimeSpent # w.TimeSpent
                        \/ e.Comment # w.Comment)

Sent(request, status) ==
    [method |-> request.method, url |-> request.url,
     payload |-> request.payload, status |-> status]

(***************************************************************************)
(* edit myworklog: the command                                             *)
(***************************************************************************)
MaxLines == 3

EditDates   == {"2021-03-04", "today"}
Now         == "2021-03-05T10:15:00.000+0000"
StatusCodes == {200, 201, 500}

TimesSpent == {1800, 3900, 90}
Comments   == {"code review", "fix bug.", ""}

Morning   == (Date(2021, 3, 4) - UnixEpochDay) * 86400 + 9 * 3600
Afternoon == (Date(2021, 3, 4) - UnixEpochDay) * 86400 + 13 * 3600 + 30 * 60

FirstIssue(timeSpent, comment) ==
    [Key |-> "GOJ-12", Summary |-> "Edit worklogs",
     Entries |-> <<[ID |-> 123456, StartDate |-> Morning,
                    TimeSpent |-> timeSpent, Comment |-> comment]>>]

SecondIssue ==
    [Key |-> "AB-7", Summary |-> "Meetings",
     Entries |-> <<[ID |-> 123457, StartDate |-> Afternoon,
                    TimeSpent |-> 3600, Comment |-> "standup"]>>]

\* what the timesheet plugin may answer for the day
Timesheets ==
    {<<>>}
    \cup {<<FirstIssue(t, c)>> : t \in TimesSpent, c \in Comments}
    \cup {<<SecondIssue, FirstIssue(t, c)>> : t \in TimesSpent, c \in Comments}

\* lines the user may type in the editor
TypedLines ==
    {"(#new)    GOJ-12    15:00    1h 30m    new work\n",
     "(#new)    AB-7    16:00    45m    \n",
     "(#123456)    GOJ-12    10:00    0.5h    code review\n",
     "(#999999)    GOJ-12    09:00    1h    unknown\n",
     "(#123457)    AB-7    13:30    90m    standup\n",
     "# a note\n"}

RECURSIVE Concat(_)
Concat(lines) == IF lines = <<>> THEN "" ELSE Head(lines) \o Concat(Tail(lines))

\* the texts the user may save: up to MaxLines lines, each a line of the
\* rendered text or a typed one
EditedTexts(content) ==
    LET rendered == {executeInternalTemplate(<<content[i]>>) : i \in 1..Len(content)}
    IN  {Concat(lines) : lines \in SeqsUpTo(rendered \cup TypedLines, MaxLines)}

Init ==
    /\ pc = "timesheet"
    /\ input \in [date : EditDates]
    /\ output = <<>>
    /\ NoCommand

\* editMyWorklogCmd up to the editor
EditGetTimesheet ==
    /\ pc = "timesheet"
    /\ IF ~validateDate(input.date)
       THEN /\ pc' = "done"
            /\ exitCode' = 0
            /\ UNCHANGED <<output, editVars>>
       ELSE \E ts \in Timesheets :
                IF Len(ts) = 0
                THEN /\ output' = Append(output, "There is nothing to edit.")
                     /\ Exit(0)
                     /\ UNCHANGED editVars
                ELSE \E sorted \in GetWorklogsSorted(ts, FALSE) :
                         /\ dayWorklogs' = sorted
                         /\ out' = executeInternalTemplate(sorted)
                         /\ pc' = "editor"
                         /\ UNCHANGED <<output, exitCode, edited, editedWorklogs, idx>>
    /\ UNCHANGED <<input, calls>>

\* captureInputFromEditor: the editor could not be run, or the file not read
EditorFail ==
    /\ pc = "editor"
    /\ output' = Append(output, "Error: editor")
    /\ Exit(1)
    /\ UNCHANGED <<input, calls, editVars>>

\* captureInputFromEditor: the file still has its modification time, and
\* nothing is read from it
EditorQuit ==
    /\ pc = "editor"
    /\ edited' = ""
    /\ pc' = "parse"
    /\ UNCHANGED <<input, output, calls, exitCode, dayWorklogs, out, editedWorklogs, idx>>

\* captureInputFromEditor: the file was written
EditorSave ==
    /\ pc = "editor"
    /\ edited' \in EditedTexts(dayWorklogs)
    /\ pc' = "parse"
    /\ UNCHANGED <<input, output, calls, exitCode, dayWorklogs, out, editedWorklogs, idx>>

\* parseEditedWorklog on what the editor gave back, then into the loops
ParseEditedWorklog ==
    /\ pc = "parse"
    /\ \E records \in {parseEditedWorklog(input.date, edited)} :
           IF \E i \in 1..Len(records) : records[i].err
           THEN /\ output' = Append(output, "Error: invalid duration format")
                /\ Exit(1)
                /\ UNCHANGED <<editedWorklogs, idx>>
           ELSE /\ editedWorklogs' =
                       [i \in 1..Len(records) |->
                           [ID |-> records[i].ID, Date |-> "",
                            StartDate |-> records[i].StartDate, Key |-> records[i].Key,
                            Summary |-> "", Comment |-> records[i].Comment,
                            TimeSpent |-> records[i].TimeSpent]]
                /\ idx' = 1
                /\ pc' = "update"
                /\ UNCHANGED <<output, exitCode>>
    /\ UNCHANGED <<input, calls, dayWorklogs, out, edited>>

\* how many of the requests sent use the method
CountCalls(sent, method) == Cardinality({i \in 1..Len(sent) : sent[i].method = method})

\* one round of the outer loop of updateChangedWorklogs, or its end
UpdateChangedWorklogs ==
    /\ pc = "update"
    /\ IF idx > Len(editedWorklogs)
       THEN LET success == CountCalls(calls, "PUT")
            IN  /\ output' = IF success >= 1
                             THEN Append(output, "Successfully updated " \o Itoa(success)
                                                     \o " worklog entries")
                             ELSE output
                /\ pc' = "add"
                /\ idx' = 1
                /\ UNCHANGED <<calls, exitCode>>
       ELSE LET e == editedWorklogs[idx]
            IN  IF \E j \in 1..Len(dayWorklogs) : Changed(e, dayWorklogs[j])
                THEN LET request == updateWorklog(e, Now)
                         failed  == "Failed to update worklog id: " \o Itoa(e.ID)
                                        \o ", key; " \o e.Key
                     IN  IF request.err
                         THEN /\ output' = Append(output, failed)
                              /\ Exit(1)
                              /\ UNCHANGED <<calls, idx>>
                         ELSE \E status \in StatusCodes :
                                  /\ calls' = Append(calls, Sent(request, status))
                                  /\ IF UpdateErr(status)
                                     THEN /\ output' = Append(output, failed)
                                          /\ Exit(1)
                                          /\ UNCHANGED idx
                                     ELSE /\ idx' = idx + 1
                                          /\ UNCHANGED <<pc, output, exitCode>>
                ELSE /\ idx' = idx + 1
                     /\ UNCHANGED <<pc, output, calls, exitCode>>
    /\ UNCHANGED <<input, dayWorklogs, out, edited, editedWorklogs>>

\* one round of the loop of addNewWorklogs, or its end; the loop is left
\* after the first worklog it has added
AddNewWorklogs ==
    /\ pc = "add"
    /\ IF idx > Len(editedWorklogs)
       THEN /\ pc' = "done"
            /\ exitCode' = 0
            /\ UNCHANGED <<output, calls, idx>>
       ELSE LET e           == editedWorklogs[idx]
                dateAndTime == Split(e.StartDate, " ")
                workDate    == IF Len(dateAndTime) = 2 THEN dateAndTime[1] ELSE ""
            IN  IF e.ID = NewID
                THEN \E status \in StatusCodes :
                         /\ calls' = Append(calls,
                                Sent(addWork(e.Key, Itoa(e.TimeSpent), e.Comment,
                                             workDate, Now), status))
                         /\ IF UpdateErr(status)
                            THEN /\ output' = Append(output,
                                       "Failed to add new worklog key; " \o e.Key)
                                 /\ Exit(1)
                            ELSE /\ output' = Append(output,
                                       "Successfully added 1 worklog entries")
                                 /\ pc' = "done"
                                 /\ exitCode' = 0
                         /\ UNCHANGED idx
                ELSE /\ idx' = idx + 1
                     /\ UNCHANGED <<pc, output, calls, exitCode>>
    /\ UNCHANGED <<input, dayWorklogs, out, edited, editedWorklogs>>

Next ==
    \/ EditGetTimesheet
    \/ EditorFail
    \/ EditorQuit
    \/ EditorSave
    \/ ParseEditedWorklog
    \/ UpdateChangedWorklogs
    \/ AddNewWorklogs

Spec == Init /\ [][Next]_vars

(***************************************************************************)
(* GetWorklogsSorted on a timesheet of two issues                          *)
(***************************************************************************)
\* start times: two within one minute, one later the same day, one on the
\* day before at a later hour
StartTimes == {Morning, Morning + 10, Afternoon, Morning - 86400 + 7200}

SortEntry(id, start) ==
    [ID |-> id, StartDate |-> start, TimeSpent |-> 60 * (id - 100),
     Comment |-> "a comment of more than thirty-one characters"]

SortTimesheets ==
    LET first  == {<<SortEntry(101, a)>> : a \in StartTimes}
                      \cup {<<SortEntry(101, a), SortEntry(102, b)>> : a, b \in StartTimes}
        second == {<<>>} \cup {<<SortEntry(103, c)>> : c \in StartTimes}
    IN  {<<[Key |-> "GOJ-12", Entries |-> e1,
            Summary |-> "A summary that is longer than the forty characters shown"],
           [Key |-> "AB-7", Summary |-> "Meetings", Entries |-> e2]>> :
             e1 \in first, e2 \in second}

InitSorted ==
    /\ pc = "sort"
    /\ input \in [timesheet : SortTimesheets, truncate : BOOLEAN]
    /\ output = <<>>
    /\ NoCommand

SortWorklogs ==
    /\ pc = "sort"
    /\ output' \in GetWorklogsSorted(input.timesheet, input.truncate)
    /\ pc' = "done"
    /\ UNCHANGED <<input, cmdVars>>

SpecSorted == InitSorted /\ [][SortWorklogs]_vars

\* the raw entries of the timesheet, each with the key of its issue
RawEntries ==
    UNION {{[key |-> input.timesheet[k].Key, entry |-> input.timesheet[k].Entries[i]] :
               i \in 1..Len(input.timesheet[k].Entries)} : k \in 1..Len(input.timesheet)}

\* the timestamp of the raw entry a record was made from
RawStart(record) == (CHOOSE r \in RawEntries : r.entry.ID = record.ID).entry.StartDate

\* one record for every raw entry and no other record
OnePerEntry ==
    /\ Len(output) = Cardinality(RawEntries)
    /\ \A r \in RawEntries :
           \E i \in 1..Len(output) : /\ output[i].ID = r.entry.ID
                                     /\ output[i].Key = r.key
                                     /\ output[i].TimeSpent = r.entry.TimeSpent

\* C19: GetWorklogsSorted returns one record for every raw entry of every
\* issue, none dropped and none twice, in the order of their start
\* timestamps, so that the entries of a day are in chronological order.
C19_Chronological ==
    pc = "done" =>
        /\ OnePerEntry
        /\ \A i, j \in 1..Len(output) : i < j => RawStart(output[i]) <= RawStart(output[j])

\* C19 as the code has it: the records are in the order of the minutes
\* their entries start in; within one minute the order is open.
C19_SortedByMinute ==
    pc = "done" =>
        /\ OnePerEntry
        /\ \A i, j \in 1..Len(output) :
               i < j => RawStart(output[i]) \div 60 <= RawStart(output[j]) \div 60

C19_Witness ==
    /\ pc = "done"
    /\ Len(output) = 3
    /\ output[1].ID = 103 /\ output[2].ID = 102 /\ output[3].ID = 101
    /\ output[1].Date = output[2].Date
    /\ output[3].StartDate = "2021-03-04 13:30"

(***************************************************************************)
(* edit myworklog from the saved file on, the file holding one line the    *)
(* user typed field by field and the text that follows it.                 *)
(***************************************************************************)
\* text behind the typed line, with the number of (#new) markers and of
\* data lines in it
AfterParts ==
    {[text |-> "", news |-> 0, lines |-> 0],
     [text |-> "# a note\n", news |-> 0, lines |-> 0],
     [text |-> "see above\n", news |-> 0, lines |-> 0],
     [text |-> "(#new)    AB-7    16:00    45m    more\n", news |-> 1, lines |-> 1]}

EditedLine(i) ==
    i.marker \o "    " \o i.key \o "    " \o i.time \o "    " \o i.dur \o "    "
        \o i.comment \o "\n" \o i.after.text

InitLine ==
    /\ pc = "parse"
    /\ input \in [date : {"2021-03-04"},
                  marker : {"(#new)", "(#123456)", "(#000001)"},
                  key : {"GOJ-12", "AB-7"},
                  time : {"15:00"},
                  dur : {"1h 5m", "1h", "0.5h", "45m", "85m", "90m", "1h 75m", ""},
                  comment : {"work", "fix bug.", ""},
                  after : AfterParts]
    /\ dayWorklogs \in GetWorklogsSorted(<<FirstIssue(1800, "code review")>>, FALSE)
    /\ out = executeInternalTemplate(dayWorklogs)
    /\ edited = EditedLine(input)
    /\ output = <<>> /\ calls = <<>> /\ exitCode = "none"
    /\ editedWorklogs = <<>> /\ idx = 0

NextLine ==
    \/ ParseEditedWorklog
    \/ UpdateChangedWorklogs
    \/ AddNewWorklogs

SpecLine == InitLine /\ [][NextLine]_vars

\* cobra.CheckErr has ended the command inside parseEditedWorklog
ParseAborted == \E i \in 1..Len(output) : output[i] = "Error: invalid duration format"

\* parseEditedWorklog has returned its records
Parsed == pc # "parse" /\ ~ParseAborted

\* C15: a record parsed from a numeric marker never has the ID that marks
\* a new record, and no create is sent for it.
C15_OnlyNewMarkerCreates ==
    (input.marker # "(#new)" /\ input.after.news = 0)
        => /\ \A i \in 1..Len(editedWorklogs) : editedWorklogs[i].ID # NewID
           /\ \A j \in 1..Len(calls) : calls[j].method # "POST"

\* C16: parseEditedWorklog never ends the command or reports an error; a
\* line with a missing or malformed field gives no record.
C16_ParseNeverAborts == ~ParseAborted

\* C17: every record has its fields from one line, its comment the trimmed
\* rest of that line, and there are as many records as data lines.
C17_OneLinePerRecord ==
    Parsed =>
        /\ Len(editedWorklogs) = 1 + input.after.lines
        /\ editedWorklogs[1].Key = input.key
        /\ editedWorklogs[1].StartDate = input.date \o " " \o input.time
        /\ editedWorklogs[1].TimeSpent = Atoi(DurationStringToSeconds(input.dur).val)
        /\ editedWorklogs[1].Comment = TrimSpace(input.comment)

\* C18: a line whose duration DurationStringToSeconds accepts is parsed into
\* a record with that number of seconds.
C18_SameGrammar ==
    (pc # "parse" /\ ~DurationStringToSeconds(input.dur).err)
        => /\ editedWorklogs # <<>>
           /\ editedWorklogs[1].TimeSpent = Atoi(DurationStringToSeconds(input.dur).val)

(***************************************************************************)
(* edit myworklog: properties                                              *)
(***************************************************************************)
Reconciling == pc \in {"update", "add", "done", "exit"}

IsUpdate(c) == c.method = "PUT"

NewRecords == Cardinality({i \in 1..Len(editedWorklogs) : editedWorklogs[i].ID = NewID})

\* C1: when the text given back by the editor is the rendered text,
\* unedited, reconciling it against the worklogs it was rendered from sends
\* no update and no create request.
C1_UneditedIsNoOp == (Reconciling /\ edited = out) => calls = <<>>

\* C2: when the command has run to its end and no request has failed, as
\* many create requests were sent as the edited list holds records with
\* the "new" id.
C2_OneCreatePerNew ==
    (pc = "done" /\ \A i \in 1..Len(calls) : calls[i].status \in {200, 201, 204})
        => CountCalls(calls, "POST") = NewRecords

\* how many edited records updateChangedWorklogs has gone through
UpdatesDone ==
    IF pc = "update" THEN idx - 1
    ELSE IF pc = "exit" /\ calls # <<>> /\ IsUpdate(calls[Len(calls)]) THEN idx
    ELSE Len(editedWorklogs)

HasChangedOriginal(e) ==
    \E j \in 1..Len(dayWorklogs) :
        /\ dayWorklogs[j].ID = e.ID
        /\ \/ dayWorklogs[j].StartDate # e.StartDate
           \/ dayWorklogs[j].TimeSpent # e.TimeSpent
           \/ dayWorklogs[j].Comment # e.Comment

\* C3: the update requests sent so far are, in order, one for each edited
\* record gone through that has an original with its id and another start,
\* duration or comment, addressed to that record's issue key and id and
\* carrying its duration and comment; there is none for any other record,
\* and every request is an update or a create, never a removal.
C3_UpdateExactlyWhenChanged ==
    LET expected == SelectSeq(SubSeq(editedWorklogs, 1, UpdatesDone), HasChangedOriginal)
        updates  == SelectSeq(calls, IsUpdate)
    IN  /\ Len(updates) = Len(expected)
        /\ \A i \in 1..Len(updates) :
               /\ updates[i].url = "/rest/api/2/issue/" \o expected[i].Key
                                       \o "/worklog/" \o Itoa(expected[i].ID) \o "/"
               /\ updates[i].payload.timeSpentSeconds = Itoa(expected[i].TimeSpent)
               /\ updates[i].payload.comment = expected[i].Comment
        /\ \A i \in 1..Len(calls) : calls[i].method \in {"PUT", "POST"}

\* an update was sent for one record while a second, equal to its original,
\* and a third, whose id no original has, were passed over
C3_Witness ==
    /\ pc = "done"
    /\ Len(editedWorklogs) = 3
    /\ Len(calls) = 1 /\ IsUpdate(calls[1])
    /\ calls[1].url = "/rest/api/2/issue/GOJ-12/worklog/123456/"
    /\ \E i \in 1..3 : \E j \in 1..Len(dayWorklogs) :
           /\ editedWorklogs[i].ID = dayWorklogs[j].ID
           /\ ~HasChangedOriginal(editedWorklogs[i])
    /\ \E i \in 1..3 : editedWorklogs[i].ID = 999999

Failed(c) == c.status \notin {200, 201, 204}

\* C4: a request that failed is the last one sent, and the command has
\* then exited with status 1; once a request has failed no request is
\* sent, and the requests sent earlier stay as they were.
C4_AbortOnFailure ==
    /\ [](\A i \in 1..Len(calls) :
              Failed(calls[i]) => i = Len(calls) /\ pc = "exit" /\ exitCode = 1)
    /\ [][(\E i \in 1..Len(calls) : Failed(calls[i])) => calls' = calls]_vars
    /\ [][Len(calls') >= Len(calls) /\ SubSeq(calls', 1, Len(calls)) = calls]_vars

\* the second request failed after the first had succeeded, and a record
\* still to be created was never sent
C4_Witness ==
    /\ pc = "exit" /\ exitCode = 1
    /\ Len(calls) = 2
    /\ ~Failed(calls[1]) /\ Failed(calls[2])
    /\ NewRecords >= 1
    /\ CountCalls(calls, "POST") = 0

\* C27: in edit myworklog no request that creates a worklog (POST) is sent
\* before a request that updates one (PUT), and once an update request has
\* failed no create request is ever sent.
C27_UpdatesBeforeCreates ==
    /\ \A i, j \in 1..Len(calls) :
          (calls[i].method = "POST" /\ calls[j].method = "PUT") => j < i
    /\ (\E i \in 1..Len(calls) : calls[i].method = "PUT" /\ Failed(calls[i]))
          => CountCalls(calls, "POST") = 0

\* an update that succeeded, followed by a create
C27_Witness ==
    /\ Len(calls) >= 2
    /\ calls[1].method = "PUT" /\ ~Failed(calls[1])
    /\ calls[Len(calls)].method = "POST"

(***************************************************************************)
(* The cache of public holidays: LoadPublicHolidays called again and again *)
(* for one year and country, on a cache file that is either missing or     *)
(* holds what an earlier call left in it.                                  *)
(***************************************************************************)
MaxLoads == 3

\* the bytes of a file or of a response body: a JSON list of holidays, a
\* JSON document that is no list (the body of an error status), or no bytes
ListBody(dates) == [kind |-> "list", holidays |-> [i \in 1..Len(dates) |-> [Date |-> dates[i]]]]

ObjectBody == [kind |-> "object", holidays |-> <<>>]

EmptyBody == [kind |-> "empty", holidays |-> <<>>]

NoFile == [exists |-> FALSE, data |-> EmptyBody]

\* json.Unmarshal(data, &publicHolidays) into an empty list
Unmarshal(data) ==
    [val |-> IF data.kind = "list" THEN data.holidays ELSE <<>>,
     err |-> data.kind # "list"]

\* what the holiday service can answer to HTTPGet: body is what HTTPGet
\* returns, the body of any status, or no bytes when the request failed
HolidayURL(year, countryCode) ==
    "https://date.nager.at/api/v3/publicholidays/" \o year \o "/" \o ToUpper(countryCode)

Responses(year) ==
    {[status |-> 200, body |-> ListBody(<<year \o "-01-01", year \o "-05-17">>)],
     [status |-> 200, body |-> ListBody(<<>>)],
     [status |-> 404, body |-> ObjectBody],
     [status |-> 0, body |-> EmptyBody]}

HTTPGet(url, response) == response.body

LoadPublicHolidays_Refetch(file, year, countryCode, response, writeOk) ==
    LET data    == HTTPGet(HolidayURL(year, countryCode), response)
        written == IF writeOk THEN [exists |-> TRUE, data |-> data] ELSE file
        read    == IF written.exists THEN written.data ELSE EmptyBody
    IN  [file     |-> written,
         requests |-> <<[method |-> "GET", url |-> HolidayURL(year, countryCode),
                         status |-> response.status, body |-> response.body]>>,
         holidays |-> Unmarshal(read).val]

\* LoadPublicHolidays(filename, year, countryCode) on the file named
\* filename, with the answer the service would give and whether the file
\* can be written
LoadPublicHolidays(file, year, countryCode, response, writeOk) ==
    LET fetch   == ~file.exists
        data    == HTTPGet(HolidayURL(year, countryCode), response)
        written == IF fetch /\ writeOk THEN [exists |-> TRUE, data |-> data] ELSE file
        read    == IF written.exists THEN written.data ELSE EmptyBody
    IN  [file     |-> written,
         requests |-> IF fetch
                      THEN <<[method |-> "GET", url |-> HolidayURL(year, countryCode),
                              status |-> response.status, body |-> response.body]>>
                      ELSE <<>>,
         holidays |-> Unmarshal(read).val]

GetPublicHolidayDates(publicHolidays) ==
    [i \in 1..Len(publicHolidays) |-> publicHolidays[i].Date]

InitHolidays ==
    /\ pc = "load"
    /\ input \in [year : {"2021", "2022"}, countryCode : {"no", "SE"}]
    /\ output \in [file : {NoFile, [exists |-> TRUE,
                                    data |-> ListBody(<<"2021-12-24">>)]},
                   holidays : {<<>>}, loads : {0}]
    /\ NoCommand

LoadHolidays ==
    /\ pc = "load"
    /\ output.loads < MaxLoads
    /\ \E response \in Responses(input.year), writeOk \in BOOLEAN :
         \E r \in {LoadPublicHolidays(output.file, input.year, input.countryCode,
                                     response, writeOk)} :
            /\ output' = [file |-> r.file, holidays |-> r.holidays,
                          loads |-> output.loads + 1]
            /\ calls' = calls \o r.requests
    /\ UNCHANGED <<pc, input, exitCode, editVars>>

SpecHolidays == InitHolidays /\ [][LoadHolidays]_vars

\* C21: a call of LoadPublicHolidays sends a request to the holiday service
\* exactly when the cache file is missing when it is called; a cache file
\* that exists is left as it is; and the list returned is what parsing the
\* cache file as it is after the call gives (nothing when there is no file),
\* whatever the service answered.
C21_CacheFirst ==
    [][/\ Len(calls') = Len(calls) + (IF output.file.exists THEN 0 ELSE 1)
       /\ output.file.exists => output'.file = output.file
       /\ output'.holidays = (IF output'.file.exists
                              THEN Unmarshal(output'.file.data).val ELSE <<>>)]_vars

C21_Witness ==
    /\ output.loads = 2
    /\ Len(calls) = 1
    /\ calls[1].url = "https://date.nager.at/api/v3/publicholidays/2021/NO"
    /\ output.file.exists
    /\ GetPublicHolidayDates(output.holidays) = <<"2021-01-01", "2021-05-17">>

\* C28: when the last answer of the holiday service was a failed request, an
\* error status or an empty body, there is no cache file.
C28_NoCacheAfterFailedFetch ==
    (calls # <<>> /\ calls[Len(calls)].body.kind # "list") => ~output.file.exists

(***************************************************************************)
(* The command "edit description": the issue is read from the server, its  *)
(* description goes through the editor, and what comes back is sent to the *)
(* server.                                                                 *)
(***************************************************************************)
\* strings.ReplaceAll(s, old, new) for a non-empty old
RECURSIVE ReplaceAll(_, _, _)
ReplaceAll(s, old, new) ==
    IF Len(s) < Len(old) THEN s
    ELSE IF SubSeq(s, 1, Len(old)) = old
         THEN new \o ReplaceAll(SubSeq(s, Len(old) + 1, Len(s)), old, new)
         ELSE Char(s, 1) \o ReplaceAll(SubSeq(s, 2, Len(s)), old, new)

\* the mark of a code block, three grave accents in the source, is written
\* with apostrophes here
CodeFence == "'''"

makeStringJSONSafe(str) == JSONEscape(ReplaceAll(str, CodeFence, "{noformat}"))

\* what the server holds for the issue, and what the user may leave in the
\* editor when the file is written
ServerDescriptions == {"", "Old text", "See '''log'''"}
EditedDescriptions == {"New text", "say \"hi\" \n", "Old text"}

\* the string a JSON document carries as escaped
JSONDecode(escaped) ==
    CHOOSE d \in {ReplaceAll(t, CodeFence, "{noformat}") :
                    t \in ServerDescriptions \cup EditedDescriptions} :
        JSONEscape(d) = escaped

\* the answers to GET /rest/api/2/issue/<key>: the issue, an error document
\* of the server, a page that is no JSON, or no answer (status 0)
IssueResponses(description) ==
    {[status |-> 200, kind |-> "issue", description |-> description],
     [status |-> 404, kind |-> "errors", description |-> ""],
     [status |-> 401, kind |-> "html", description |-> ""],
     [status |-> 500, kind |-> "errors", description |-> ""],
     [status |-> 0, kind |-> "none", description |-> ""]}

\* the answers to PUT /rest/api/2/issue/<key>
UpdateStatuses == {0, 204, 400, 403, 500}

\* getJSONResponse into an IssueDescriptionResponse: fatal is log.Fatal
getJSONResponse(response) ==
    IF response.status = 0 THEN [fatal |-> TRUE, description |-> ""]
    ELSE IF response.kind = "html" THEN [fatal |-> TRUE, description |-> ""]
    ELSE [fatal |-> FALSE, description |-> response.description]

getJSONResponse_CheckStatus(response) ==
    IF response.status # 200 \/ response.kind = "html"
    THEN [fatal |-> TRUE, description |-> ""]
    ELSE [fatal |-> FALSE, description |-> response.description]

\* captureInputFromEditor(text, pattern): how the user left the editor is
\* "fail" (it could not be run), "quit" (the file has its modification
\* time) or "save" with the text then in the file
captureInputFromEditor(text, how, saved) ==
    CASE how = "fail" -> [val |-> "", err |-> TRUE]
      [] how = "quit" -> [val |-> "", err |-> FALSE]
      [] how = "save" -> [val |-> saved, err |-> FALSE]

IssueURL(key) == "/rest/api/2/issue/" \o ToUpper(key)

InitDescription ==
    /\ pc = "key"
    /\ input \in [arg : {"", "goj-12"}, server : ServerDescriptions]
    /\ output = [key |-> "", issue |-> None, how |-> None, desc |-> None,
                 server |-> input.server, log |-> ""]
    /\ NoCommand

\* validateIssueKey: a key given as argument is looked up with issueExists,
\* without one the active issue is taken
DescValidateIssueKey ==
    /\ pc = "key"
    /\ IF input.arg = ""
       THEN /\ output' = [output EXCEPT !.key = "GOJ-12"]
            /\ pc' = "issue"
            /\ UNCHANGED <<calls, exitCode>>
       ELSE \E status \in {0, 200, 404} :
              /\ calls' = Append(calls, [method |-> "GET", url |-> IssueURL(input.arg),
                                         payload |-> "", status |-> status,
                                         use |-> "issueExists"])
              /\ IF status = 200
                 THEN /\ output' = [output EXCEPT !.key = ToUpper(input.arg)]
                      /\ pc' = "issue"
                      /\ UNCHANGED exitCode
                 ELSE /\ output' = [output EXCEPT !.log = "does not exist"]
                      /\ Exit(1)
    /\ UNCHANGED <<input, editVars>>

\* getIssue
DescGetIssue ==
    /\ pc = "issue"
    /\ \E response \in IssueResponses(output.server) :
         \E r \in {getJSONResponse(response)} :
            /\ calls' = Append(calls, [method |-> "GET", url |-> IssueURL(output.key),
                                       payload |-> "", status |-> response.status,
                                       use |-> IF r.fatal THEN "fatal" ELSE "data"])
            /\ IF r.fatal
               THEN /\ output' = [output EXCEPT !.log = "fatal"]
                    /\ Exit(1)
               ELSE /\ output' = [output EXCEPT !.issue = r.description]
                    /\ pc' = "editor"
                    /\ UNCHANGED exitCode
    /\ UNCHANGED <<input, editVars>>

DescEditor ==
    /\ pc = "editor"
    /\ \E how \in {"fail", "quit", "save"}, saved \in EditedDescriptions :
         \E r \in {captureInputFromEditor(output.issue, how, saved)} :
            IF r.err
            THEN /\ output' = [output EXCEPT !.how = how,
                                             !.log = "Failed to read description"]
                 /\ Exit(1)
            ELSE /\ output' = [output EXCEPT !.how = how, !.desc = r.val]
                 /\ pc' = "update"
                 /\ UNCHANGED exitCode
    /\ UNCHANGED <<input, calls, editVars>>

\* updateDescription and the end of the command; a request answered 204
\* has replaced the description the server holds
DescUpdate ==
    /\ pc = "update"
    /\ \E status \in UpdateStatuses :
         \E jsonDesc \in {makeStringJSONSafe(output.desc)} :
            /\ calls' = Append(calls, [method |-> "PUT", url |-> IssueURL(output.key),
                                       payload |-> jsonDesc, status |-> status,
                                       use |-> "update"])
            /\ IF UpdateErr(status)
               THEN /\ output' = [output EXCEPT !.log = "Failed to update description"]
                    /\ Exit(1)
               ELSE /\ output' = [output EXCEPT
                                     !.server = JSONDecode(jsonDesc),
                                     !.log = "Successfully saved new description"]
                    /\ pc' = "done"
                    /\ exitCode' = 0
    /\ UNCHANGED <<input, editVars>>

NextDescription ==
    \/ DescValidateIssueKey
    \/ DescGetIssue
    \/ DescEditor
    \/ DescUpdate

SpecDescription == InitDescription /\ [][NextDescription]_vars

\* a request that met a transport error (status 0) or a status outside 2xx
Unsuccessful(c) == c.status < 200 \/ c.status > 299

\* C22: a request that ended in a transport error or a status outside 2xx
\* is the last request of the command (nothing is sent again), the command
\* has stopped with status 1, and the response was not taken as data.
C22_RemoteFailureStops ==
    \A i \in 1..Len(calls) :
        Unsuccessful(calls[i]) =>
            /\ i = Len(calls)
            /\ pc = "exit" /\ exitCode = 1
            /\ calls[i].use # "data"

\* C25: when the editor was opened on the description the server holds and
\* the user has left it without writing the file, the server holds the
\* description it held when the command started: no request was sent, or
\* the request carried that description.
C25_UnmodifiedKeepsDescription ==
    (output.how = "quit" /\ output.issue = input.server) =>
        output.server = input.server

(***************************************************************************)
(* validate.Date on a string, and the week GetTimesheet asks the server    *)
(* for when the string was accepted.                                       *)
(***************************************************************************)
validate_Date_Unanchored(date) == validateDate(date)

\* validate.Date: the pattern of validateDate between ^ and $
validate_Date(date) == Len(date) = 10 /\ DatePatternAt(date, 1)

\* GetTimesheet with showEntireWeek: the startDate and endDate of the URL
GetTimesheetWeek(date) == WeekStartEndDate(ISOWeek(ParseDate(date).t)[1],
                                           ISOWeek(ParseDate(date).t)[2])

InitValidate ==
    /\ pc = "validate"
    /\ \E lead \in {"", " "}, trail \in {"", " 15:04", "\n"},
          y \in {"2006", "2019", "2020", "2021", "2024", "2029", "2030"},
          m \in {"00", "01", "02", "04", "12", "13", "1"},
          d \in {"00", "01", "02", "2", "12", "29", "30", "31", "32"} :
         input = [date |-> lead \o y \o "-" \o m \o "-" \o d \o trail]
    /\ output = [valid |-> FALSE, week |-> <<>>]
    /\ NoCommand

ValidateDate ==
    /\ pc = "validate"
    /\ output' = [valid |-> validate_Date(input.date),
                  week  |-> IF validate_Date(input.date)
                            THEN GetTimesheetWeek(input.date) ELSE <<>>]
    /\ pc' = "done"
    /\ UNCHANGED <<input, cmdVars>>

SpecValidate == InitValidate /\ [][ValidateDate]_vars

\* the number written at positions a..b of s, -1 unless all are digits
Field(s, a, b) ==
    IF \A i \in a..b : Char(s, i) \in Digits THEN DigitsValue(SubSeq(s, a, b)) ELSE -1

\* C23: validate.Date accepts a string exactly when the whole of it is
\* yyyy-mm-dd in two-digit months and days, with a year of 2020..2029, a
\* month of 01..12 and a day of 01..31.
C23_DateShape ==
    pc = "done" =>
        (output.valid <=>
            /\ Len(input.date) = 10
            /\ Char(input.date, 5) = "-" /\ Char(input.date, 8) = "-"
            /\ Field(input.date, 1, 4) \in 2020..2029
            /\ Field(input.date, 6, 7) \in 1..12
            /\ Field(input.date, 9, 10) \in 1..31)

C23_Witness ==
    /\ pc = "done"
    /\ \/ input.date = "2021-01-12" /\ output.valid
       \/ input.date = "2020-01-02 15:04" /\ ~output.valid

\* C24: a string validate.Date accepts is parsed without error, so the week
\* GetTimesheet asks for is not the week of the zero date 0001-01-01.
C24_AcceptedDatesParse ==
    (pc = "done" /\ output.valid) =>
        /\ ~ParseDate(input.date).err
        /\ output.week # GetTimesheetWeek("0001-01-01")

(***************************************************************************)
(* The commands "set active sprint" and "set active kanban", run one after *)
(* the other on the board file of a user who starts without one.           *)
(***************************************************************************)
MaxSets == 4

ToLowerChar(c) ==
    IF c \in Letters(UpperCase)
    THEN Char(LowerCase, CHOOSE i \in 1..Len(UpperCase) : Char(UpperCase, i) = c)
    ELSE c

\* strings.ToLower
RECURSIVE ToLower(_)
ToLower(s) ==
    IF Len(s) = 0 THEN "" ELSE ToLowerChar(Char(s, 1)) \o ToLower(SubSeq(s, 2, Len(s)))

\* the boards the server knows, and what the user may give as argument
Views == {"alpha", "Beta"}
BoardArgs == {"alpha", "Beta", "beta", "gone"}

\* jira.GetRapidViewID(board) # nil: strings.EqualFold on the names
GetRapidViewID(board) == \E x \in Views : ToLower(x) = ToLower(board)

\* the position after the end of the line s starts with
LineEnd(s) ==
    CHOOSE i \in 1..(Len(s) + 1) :
        /\ i = Len(s) + 1 \/ Char(s, i) = "\n"
        /\ \A j \in 1..(i - 1) : Char(s, j) # "\n"

\* regexp.MustCompile(prefix + `(.*)`).ReplaceAllString(s, repl)
RECURSIVE ReplaceAllString(_, _, _)
ReplaceAllString(s, prefix, repl) ==
    IF Len(s) < Len(prefix) THEN s
    ELSE IF SubSeq(s, 1, Len(prefix)) = prefix
         THEN repl \o ReplaceAllString(SubSeq(s, LineEnd(s), Len(s)), prefix, repl)
         ELSE Char(s, 1) \o ReplaceAllString(SubSeq(s, 2, Len(s)), prefix, repl)

\* the content setActiveBoard writes when the board exists
BoardContent(file, board, boardType) ==
    IF file.exists
    THEN LET repl == ReplaceAllString(file.content, boardType \o "=",
                                      boardType \o "=" \o board)
         IN  IF repl = file.content
             THEN file.content \o boardType \o "=" \o board
             ELSE repl
    ELSE boardType \o "=" \o board \o "\n"

InitBoard ==
    /\ pc = "set"
    /\ input = [sprint |-> None, kanban |-> None, sets |-> 0]
    /\ output = [exists |-> FALSE, content |-> ""]
    /\ NoCommand

\* setActiveBoard(board, boardType) and what the command prints after it;
\* input keeps what the commands that succeeded were given
setActiveBoard(board, boardType) ==
    /\ input.sets < MaxSets
    /\ IF ~GetRapidViewID(board)
       THEN /\ exitCode' = 1
            /\ input' = [input EXCEPT !.sets = @ + 1]
            /\ UNCHANGED output
       ELSE /\ output' = [exists |-> TRUE,
                          content |-> BoardContent(output, board, boardType)]
            /\ input' = [input EXCEPT ![boardType] = board, !.sets = @ + 1]
            /\ exitCode' = 0
    /\ UNCHANGED <<pc, calls, editVars>>

SetActiveSprint == pc = "set" /\ \E arg \in BoardArgs : setActiveBoard(ToLower(arg), "sprint")

SetActiveKanban == pc = "set" /\ \E arg \in BoardArgs : setActiveBoard(ToLower(arg), "kanban")

NextBoard == SetActiveSprint \/ SetActiveKanban

SpecBoard == InitBoard /\ [][NextBoard]_vars

\* the lines of the board file
BoardLines == Split(output.content, "\n")

\* the lines of the board file that start with boardType=
LinesOf(boardType) ==
    {i \in 1..Len(BoardLines) :
        /\ Len(BoardLines[i]) > Len(boardType)
        /\ SubSeq(BoardLines[i], 1, Len(boardType) + 1) = boardType \o "="}

\* C26: once a sprint board has been set, the board file holds exactly one
\* line sprint=<v>, v being the board of the last successful set; the same
\* for kanban; and a command that sets the value the file already holds
\* leaves the file as it is.
C26_OneLinePerBoardType ==
    /\ [](\A boardType \in {"sprint", "kanban"} :
            input[boardType] # None =>
                /\ Cardinality(LinesOf(boardType)) = 1
                /\ \A i \in LinesOf(boardType) :
                      BoardLines[i] = boardType \o "=" \o input[boardType])
    /\ [][[input' EXCEPT !.sets = 0] = [input EXCEPT !.sets = 0] => output' = output]_vars

(***************************************************************************)
(* The command "stats <from> <to>": the period is aligned to weeks, the    *)
(* timesheet and the public holidays are loaded, the worklogs are grouped  *)
(* by week and the statistics are printed with their summary.              *)
(***************************************************************************)
\* the arguments of the command
StatsArgs ==
    {<<"2020-12-21", "2021-01-08">>, <<"2021-01-01", "2021-01-08">>,
     <<"2021-01-04", "2021-01-15">>, <<"2021-01-15", "2021-01-04">>,
     <<"2020-12-21", "2020-12-25">>, <<"2020-12-21", "2020-12-31">>,
     <<"2020-06-01", "2021-12-01">>,
     <<"2021-1-04", "2021-01-15">>}

\* the seconds the user logs on a working day
DaySeconds == {0, 21600, 27000, 28800}

\* the public holidays of a year as the holiday service lists them
Calendar(year) == <<year \o "-01-01", year \o "-12-25", year \o "-12-31">>

\* the worklogs of the days t..t2 in the order GetWorklogsSorted gives them:
\* on each Monday to Friday that is no public holiday one worklog, of first
\* seconds in the week starting at t1 and of rest seconds later
RECURSIVE TimesheetFrom(_, _, _, _, _)
TimesheetFrom(t, t1, t2, first, rest) ==
    IF t > t2 THEN <<>>
    ELSE LET date    == FormatDate(t)
             seconds == IF t < t1 + 7 THEN first ELSE rest
         IN  (IF /\ Weekday(t) \in 1..5
                 /\ ~InSlice(Calendar(SubSeq(date, 1, 4)), date)
                 /\ seconds > 0
              THEN <<[ID |-> t, Date |-> date, TimeSpent |-> seconds]>>
              ELSE <<>>) \o TimesheetFrom(t + 1, t1, t2, first, rest)

\* printStatisticsSummary: the sign of weeksTotal - expectedTotal
printStatisticsSummary(numWeeks, weeksTotal) ==
    IF AtLeast(weeksTotal, <<Cfg.WorkingHoursPerWeek[1] * numWeeks,
                             Cfg.WorkingHoursPerWeek[2]>>)
    THEN "ahead" ELSE "short"

\* weeksTotal of printStatistics: the sum of the weeks' TotalTime
RECURSIVE WeeksSeconds(_)
WeeksSeconds(weeks) ==
    IF weeks = <<>> THEN 0
    ELSE TimeSpentSum(Head(weeks).Worklogs) + WeeksSeconds(Tail(weeks))

InitStatsCmd ==
    /\ pc = "stats"
    /\ input \in [args : StatsArgs, CountryCode : {"lv"}]
    /\ output = [fromDate |-> None, toDate |-> None, weeks |-> <<>>,
                 totals |-> <<>>, summary |-> None, log |-> ""]
    /\ NoCommand

\* getMyWorklogStatistics up to printStatistics; the holiday cache is empty
\* and the holiday service answers with the calendar of the year asked for
StatsCollect ==
    /\ pc = "stats"
    /\ IF ~(validate_Date(input.args[1]) /\ validate_Date(input.args[2]))
       THEN /\ output' = [output EXCEPT !.log = "Invalid date."]
            /\ pc' = "done"
            /\ exitCode' = 0
            /\ UNCHANGED calls
       ELSE \E a \in {ParseDate(input.args[1]).t}, b \in {ParseDate(input.args[2]).t} :
            \E t1 \in {IF b < a THEN b ELSE a}, t2 \in {IF b < a THEN a ELSE b} :
            \E fromDate \in {WeekStartEndDate(ISOWeek(t1)[1], ISOWeek(t1)[2])[1]},
               toDate \in {WeekStartEndDate(ISOWeek(t2)[1], ISOWeek(t2)[2])[2]} :
               IF (t2 - t1) * 24 > 24 * 365
               THEN /\ output' = [output EXCEPT !.log = "1 year is the max time period."]
                    /\ Exit(1)
                    /\ UNCHANGED calls
               ELSE \E first \in DaySeconds, rest \in DaySeconds :
                    \E worklogs \in {TimesheetFrom(ParseDate(fromDate).t, ParseDate(fromDate).t,
                                                   ParseDate(toDate).t, first, rest)} :
                       IF Len(worklogs) = 0
                       THEN /\ output' = [output EXCEPT !.fromDate = fromDate,
                                             !.toDate = toDate,
                                             !.log = "You havn't logged any hours"]
                            /\ Exit(0)
                            /\ UNCHANGED calls
                       ELSE \E year \in {SubSeq(FormatDate(t1), 1, 4)} :
                            \E r \in {LoadPublicHolidays(NoFile, year, input.CountryCode,
                                         [status |-> 200, body |-> ListBody(Calendar(year))],
                                         TRUE)} :
                               /\ calls' = calls \o r.requests
                               /\ output' = [output EXCEPT
                                    !.fromDate = fromDate, !.toDate = toDate,
                                    !.weeks = GroupWorklogsByWeek(fromDate, toDate, worklogs,
                                                  GetPublicHolidayDates(r.holidays))]
                               /\ pc' = "print"
                               /\ UNCHANGED exitCode
    /\ UNCHANGED <<input, editVars>>

\* printStatistics
StatsPrint ==
    /\ pc = "print"
    /\ output' = [output EXCEPT
         !.totals = [i \in 1..Len(output.weeks) |->
                        StatsTotal(TotalTime(output.weeks[i]), Cfg.WorkingHoursPerWeek,
                                   Cfg.WorkingHoursPerDay, output.weeks[i].PublicHolidays)],
         !.summary = printStatisticsSummary(Len(output.weeks),
                                            <<WeeksSeconds(output.weeks), 3600>>)]
    /\ pc' = "done"
    /\ exitCode' = 0
    /\ UNCHANGED <<input, calls, editVars>>

NextStatsCmd == StatsCollect \/ StatsPrint

SpecStatsCmd == InitStatsCmd /\ [][NextStatsCmd]_vars

\* C29: when the total of every week printed is on target, the summary does
\* not say that the user is short of the expected hours.
C29_SummaryAgreesWithWeeks ==
    (pc = "done" /\ output.summary # None
        /\ \A i \in 1..Len(output.totals) : output.totals[i] = "Green")
    => output.summary = "ahead"

\* the public holidays of the two years the periods lie in
HolidayDays == {ParseDate(Calendar(y)[i]).t : y \in {"2020", "2021"}, i \in 1..3}

\* C30: each week reported counts the public holidays that fall on its
\* Monday to Friday.
C30_HolidaysOfEveryWeek ==
    \A i \in 1..Len(output.weeks) :
        output.weeks[i].PublicHolidays =
            Cardinality({d \in HolidayDays : d >= output.weeks[i].StartDate
                                             /\ d <= output.weeks[i].StartDate + 4})
====
